---- MODULE Spec2Model ----
(***************************************************************************)
(* A model of the telemetry analyzers of agentic-adios:                    *)
(*   - the unified analyzer (telemetry_analyzer/unified_analyzer.py):      *)
(*     file loading, event parsing, session grouping, turn segmentation    *)
(*     and flow statistics;                                                *)
(*   - the flat analyzer (telemetry_analyzer/analyzer.py): parse_jsonl,    *)
(*     attribute conversion and the report's event handling;               *)
(*   - the archive analyzers (claude_telemetry/...): parse_jsonl, the      *)
(*     report and the clean-up of the extraction directory;                *)
(*   - the command-line entry points of the three.                         *)
(*                                                                         *)
(* Python values are modelled as follows.  A scalar (attribute value,      *)
(* prompt text, None) is a tagged record [tag, str, int].  An Optional     *)
(* object is a sequence of length 0 (None) or 1.  A dict is a function     *)
(* whose DOMAIN is the set of keys present.  Costs are integers in units   *)
(* of 1e-5 dollars.                                                        *)
(***************************************************************************)
EXTENDS Integers, Sequences, FiniteSets, TLC

VARIABLES
    pc,                 \* position of the run of the specification at hand
    session_events,     \* _process_conversation_turns: the events consumed so far
    current_turn,       \* _process_conversation_turns: current_turn (<<>> is None)
    turn_counter,       \* _process_conversation_turns: turn_counter
    flow,               \* the ConversationFlow being filled
    events,             \* UnifiedTelemetryAnalyzer.events
    agent_sessions,     \* analyze_conversation_flow: agent_sessions, a sequence of
                        \* [agent_type, sessions] in insertion order, sessions a
                        \* sequence of [session_id, session_events] in insertion order
    conversation_flows, \* UnifiedTelemetryAnalyzer.conversation_flows
    next_session,       \* analyze_conversation_flow: how many sessions the second
                        \* loop has visited
    analyses,           \* the calls of analyze_conversation_flow that have ended
    data_dir,           \* the entries of the data directory, in listing order
    loader,             \* which ingestion path reads the file
    file_lines,         \* the lines of the file being loaded
    line_num,           \* how many lines the loader has read
    loaded,             \* the events the loader has produced
    warnings,           \* the number of warnings printed
    raised,             \* whether an exception left the operation
    extractor,          \* which attribute extraction reads the record
    raw_data,           \* the record whose attributes are extracted
    extracted,          \* the extraction's result (<<>> before it ran or if it raised)
    entry_point,        \* which command-line entry point runs
    dateutil,           \* whether 'from dateutil import parser' succeeds
    input_exists,       \* whether the input path (archive, file, directory) exists
    archive,            \* the archive's shape: [opens, top_dir, has_session]
    run_lines,          \* the lines of the telemetry file of the input
    temp_dir,           \* TelemetryAnalyzer.temp_dir ("none" is None)
    tmp_dirs,           \* the temporary directories that exist on disk
    run_events,         \* the event list the run holds
    parsed_events,      \* the event list as the loader returned it
    report,             \* the report, a sequence of items
    stages,             \* the stages of the run that have started
    written,            \* whether the report file was written
    exit_status         \* the exit status of the process (-1 while it runs)

vars == <<pc, session_events, current_turn, turn_counter, flow, events,
          agent_sessions, conversation_flows, next_session, analyses, data_dir,
          loader, file_lines,
          line_num, loaded, warnings, raised, extractor, raw_data,
          extracted, entry_point, dateutil, input_exists, archive, run_lines, temp_dir,
          tmp_dirs, run_events, parsed_events, report, stages, written,
          exit_status>>

turnVars == <<session_events, current_turn, turn_counter, flow>>
groupVars == <<events, agent_sessions, conversation_flows, next_session, analyses>>
loadVars == <<data_dir, loader, file_lines, line_num, loaded, warnings>>
recordVars == <<extractor, raw_data, extracted>>
runVars == <<entry_point, dateutil, input_exists, archive, run_lines, temp_dir, tmp_dirs,
             run_events, parsed_events, report, stages, written, exit_status>>
auxVars == <<recordVars, runVars>>

(***************************************************************************)
(* Bounds of the model.                                                    *)
(***************************************************************************)
MaxEvents == 4          \* events in one session (turn segmentation)
MaxGroupEvents == 3     \* events loaded before the sessions are grouped
MaxLines == 3           \* lines of a loaded file
MaxEntries == 2         \* entries of a list-typed attributes field
MaxRunLines == 3        \* lines of the telemetry file of a run

(***************************************************************************)
(* Scalars.                                                                *)
(***************************************************************************)
StrV(s) == [tag |-> "str", str |-> s, int |-> 0]
IntV(n) == [tag |-> "int", str |-> "", int |-> n]
NoneV == [tag |-> "none", str |-> "", int |-> 0]
FloatV(s) == [tag |-> "float", str |-> s, int |-> 0]
BoolV(b) == [tag |-> "bool", str |-> "", int |-> IF b THEN 1 ELSE 0]

\* dict.get(key, default)
Get(d, key, default) == IF key \in DOMAIN d THEN d[key] ELSE default

\* The empty dict.
EmptyDict == [k \in {} |-> NoneV]

\* d[key] = value on a dict.
Put(d, key, value) == [k \in DOMAIN d \cup {key} |-> IF k = key THEN value ELSE d[k]]

(***************************************************************************)
(* Log messages.  str.lower() and the substring test are tabulated over    *)
(* the messages the model uses.                                            *)
(***************************************************************************)
Lower(s) ==
    CASE s = "Prompt via Tool" -> "prompt via tool"
      [] s = "Response: Result ready" -> "response: result ready"
      [] s = "Tool started" -> "tool started"
      [] s = "RESULT ok" -> "result ok"
      [] OTHER -> s

\* needle in haystack, for a lower-cased haystack
Contains(haystack, needle) ==
    <<haystack, needle>> \in
        { <<"prompt via tool", "prompt">>, <<"prompt via tool", "tool">>,
          <<"response: result ready", "response">>,
          <<"response: result ready", "result">>,
          <<"tool started", "tool">>,
          <<"result ok", "result">> }

\* log.get('message', '')
Message(log) == Get(log, "message", "")

\* any(word in log.get('message', '').lower() for log in event.logs)
AnyLogContains(event, word) ==
    \E i \in 1..Len(event.logs) : Contains(Lower(Message(event.logs[i])), word)

\* the first log message containing word, or None
FirstLogContaining(event, word) ==
    IF AnyLogContains(event, word)
    THEN LET i == CHOOSE j \in 1..Len(event.logs) :
                     /\ Contains(Lower(Message(event.logs[j])), word)
                     /\ \A k \in 1..(j-1) :
                            ~Contains(Lower(Message(event.logs[k])), word)
         IN StrV(Message(event.logs[i]))
    ELSE NoneV

\* the last log message containing word, or None
LastLogContaining(event, word) ==
    IF AnyLogContains(event, word)
    THEN LET i == CHOOSE j \in 1..Len(event.logs) :
                     /\ Contains(Lower(Message(event.logs[j])), word)
                     /\ \A k \in (j+1)..Len(event.logs) :
                            ~Contains(Lower(Message(event.logs[k])), word)
         IN StrV(Message(event.logs[i]))
    ELSE NoneV

(***************************************************************************)
(* Turn segmentation: the classification heuristics.                       *)
(***************************************************************************)
_is_user_prompt(event) ==
    \/ "user.prompt" \in DOMAIN event.attributes
    \/ "prompt" \in DOMAIN event.attributes
    \/ event.operation_name = StrV("user_prompt")
    \/ AnyLogContains(event, "prompt")

_is_assistant_response(event) ==
    \/ "assistant.response" \in DOMAIN event.attributes
    \/ "response" \in DOMAIN event.attributes
    \/ event.operation_name = StrV("assistant_response")
    \/ AnyLogContains(event, "response")

_is_tool_call(event) ==
    \/ "tool.name" \in DOMAIN event.attributes
    \/ event.operation_name = StrV("tool_call")
    \/ AnyLogContains(event, "tool")

_is_tool_result(event) ==
    \/ "tool.result" \in DOMAIN event.attributes
    \/ event.operation_name = StrV("tool_result")
    \/ AnyLogContains(event, "result")

_extract_user_prompt(event) ==
    IF "user.prompt" \in DOMAIN event.attributes THEN event.attributes["user.prompt"]
    ELSE IF "prompt" \in DOMAIN event.attributes THEN event.attributes["prompt"]
    ELSE FirstLogContaining(event, "prompt")

_extract_assistant_response(event) ==
    IF "assistant.response" \in DOMAIN event.attributes
    THEN event.attributes["assistant.response"]
    ELSE IF "response" \in DOMAIN event.attributes THEN event.attributes["response"]
    ELSE FirstLogContaining(event, "response")

\* the dict built by _extract_tool_call; log_message is None while the key is unset
_extract_tool_call(event) ==
    [name |-> Get(event.attributes, "tool.name", StrV("unknown")),
     inputs |-> Get(event.attributes, "tool.inputs", NoneV),
     timestamp |-> event.timestamp,
     log_message |-> LastLogContaining(event, "tool")]

\* the dict built by _extract_tool_result; log_message is None while the key is unset
_extract_tool_result(event) ==
    [result |-> Get(event.attributes, "tool.result", StrV("unknown")),
     success |-> Get(event.attributes, "tool.success", StrV("True")),
     timestamp |-> event.timestamp,
     log_message |-> LastLogContaining(event, "result")]

(***************************************************************************)
(* Records of the unified analyzer.                                        *)
(***************************************************************************)
\* a datetime: seconds since the epoch, and whether it carries a UTC offset
DateTime(secs, aware) == [secs |-> secs, aware |-> aware]

TelemetryEvent(timestamp, agent_type, trace_id, service_name, operation_name, attributes, logs) ==
    [timestamp |-> timestamp, agent_type |-> agent_type, trace_id |-> trace_id,
     service_name |-> service_name, operation_name |-> operation_name,
     attributes |-> attributes, logs |-> logs]

ConversationTurnM(turn_id, agent_type, user_prompt, timestamp) ==
    [turn_id |-> turn_id, agent_type |-> agent_type, user_prompt |-> user_prompt,
     assistant_response |-> NoneV, tool_calls |-> <<>>, tool_results |-> <<>>,
     timestamp |-> timestamp, duration_ms |-> NoneV, token_usage |-> EmptyDict,
     cost_estimate |-> NoneV, errors |-> <<user_prompt>>]
ConversationTurn(turn_id, agent_type, user_prompt, timestamp) ==
    [turn_id |-> turn_id, agent_type |-> agent_type, user_prompt |-> user_prompt,
     assistant_response |-> NoneV, tool_calls |-> <<>>, tool_results |-> <<>>,
     timestamp |-> timestamp, duration_ms |-> NoneV, token_usage |-> EmptyDict,
     cost_estimate |-> NoneV, errors |-> <<>>]

ConversationFlow(session_id, agent_type, user_name, user_email, start_time, end_time) ==
    [session_id |-> session_id, agent_type |-> agent_type, user_name |-> user_name,
     user_email |-> user_email, start_time |-> start_time, end_time |-> end_time,
     turns |-> <<>>, total_tokens |-> EmptyDict, total_cost |-> 0,
     tools_used |-> EmptyDict, error_count |-> 0]

(***************************************************************************)
(* Turn segmentation: _process_conversation_turns.                         *)
(***************************************************************************)
\* one assignment of _update_token_usage: turn.token_usage[key] = attributes[attr]
SetTokens(usage, key, event, attr) ==
    IF attr \in DOMAIN event.attributes
    THEN Put(usage, key, event.attributes[attr].int)
    ELSE usage

_update_token_usageM(turn, event) == turn
_update_token_usage(turn, event) ==
    [turn EXCEPT !.token_usage =
        SetTokens(SetTokens(SetTokens(@, "input", event, "tokens.input"),
                            "output", event, "tokens.output"),
                  "total", event, "tokens.total")]

\* current_turn = None before the loop
InitialTurnM == <<ConversationTurn(0, "claude-code", NoneV, DateTime(0, TRUE))>>
InitialTurn == <<>>

\* turn_id = turn_counter, read after turn_counter += 1
AssignedTurnIdM(counter) == counter - 1
AssignedTurnId(counter) == counter

\* if current_turn: flow.turns.append(current_turn)
CloseTurnM(turns, ct) == turns
CloseTurn(turns, ct) == IF ct # <<>> THEN Append(turns, ct[1]) ELSE turns

\* current_turn.assistant_response = self._extract_assistant_response(event)
SetResponseM(old, text) == IF old = NoneV THEN text ELSE old
SetResponse(old, text) == text

\* the state of the loop before its first iteration
TurnLoopInit == [current_turn |-> InitialTurn, turn_counter |-> 0, turns |-> <<>>]

\* one iteration of the for loop over the session's events
TurnStep(st, agent_type, event) ==
    LET ct == st.current_turn
        s1 == IF _is_user_prompt(event)
              THEN [turns |-> CloseTurn(st.turns, ct),
                    turn_counter |-> st.turn_counter + 1,
                    current_turn |->
                        <<ConversationTurn(AssignedTurnId(st.turn_counter + 1),
                                           agent_type,
                                           _extract_user_prompt(event),
                                           event.timestamp)>>]
              ELSE IF _is_assistant_response(event) /\ ct # <<>>
              THEN [st EXCEPT !.current_turn[1].assistant_response =
                                  SetResponse(@, _extract_assistant_response(event))]
              ELSE IF _is_tool_call(event) /\ ct # <<>>
              THEN [st EXCEPT !.current_turn[1].tool_calls =
                                  Append(@, _extract_tool_call(event))]
              ELSE IF _is_tool_result(event) /\ ct # <<>>
              THEN [st EXCEPT !.current_turn[1].tool_results =
                                  Append(@, _extract_tool_result(event))]
              ELSE st
    IN  IF s1.current_turn # <<>>
        THEN [s1 EXCEPT !.current_turn[1] = _update_token_usage(@, event)]
        ELSE s1

RECURSIVE TurnLoop(_, _, _)
TurnLoop(st, agent_type, evs) ==
    IF evs = <<>> THEN st
    ELSE TurnLoop(TurnStep(st, agent_type, Head(evs)), agent_type, Tail(evs))

\* flow.turns after _process_conversation_turns(flow, evs) on a fresh flow
_process_conversation_turns(agent_type, evs) ==
    LET st == TurnLoop(TurnLoopInit, agent_type, evs)
    IN  CloseTurn(st.turns, st.current_turn)

(***************************************************************************)
(* Flow statistics: _calculate_flow_statistics.                            *)
(***************************************************************************)
\* for key, value in turn.token_usage.items(): flow.total_tokens[key] += value
AddTokens(total, usage) ==
    [k \in DOMAIN total \cup DOMAIN usage |-> Get(total, k, 0) + Get(usage, k, 0)]

\* for tool_call in turn.tool_calls: flow.tools_used[name] += 1
CountToolsM(used, calls) ==
    [name \in DOMAIN used \cup { calls[i].name : i \in 1..Len(calls) } |-> 1]
RECURSIVE CountTools(_, _)
CountTools(used, calls) ==
    IF calls = <<>> THEN used
    ELSE CountTools(Put(used, Head(calls).name, Get(used, Head(calls).name, 0) + 1),
                    Tail(calls))

\* the cost of one turn in units of 1e-5: input * 0.00001 + output * 0.00003
TurnCostM(usage) == Get(usage, "input", 0) + Get(usage, "output", 0)
TurnCost(usage) ==
    (IF Get(usage, "input", 0) # 0 THEN usage["input"] * 1 ELSE 0)
    + (IF Get(usage, "output", 0) # 0 THEN usage["output"] * 3 ELSE 0)

RECURSIVE StatsLoop(_, _)
StatsLoop(f, turns) ==
    IF turns = <<>> THEN f
    ELSE StatsLoop([f EXCEPT !.total_tokens = AddTokens(@, Head(turns).token_usage),
                             !.tools_used = CountTools(@, Head(turns).tool_calls),
                             !.error_count = @ + Len(Head(turns).errors),
                             !.total_cost = @ + TurnCost(Head(turns).token_usage)],
                   Tail(turns))

_calculate_flow_statistics(f) ==
    StatsLoop([f EXCEPT !.total_tokens = EmptyDict, !.total_cost = 0,
                        !.tools_used = EmptyDict, !.error_count = 0],
              f.turns)

(***************************************************************************)
(* Ingestion.  A line of a JSONL file is                                   *)
(*   [kind, timestamp, envelope, resourceLogs, empty]                      *)
(* kind: "blank", "garbage" (not JSON), "number" (a JSON scalar) or        *)
(* "object"; timestamp: the object's timestamp value; envelope: whether    *)
(* the object has a resourceLogs key; resourceLogs: its logRecords, each   *)
(* the list of its attribute entries ("kv": an entry with key and value,   *)
(* "nokey": an entry without key); empty: the object is {}.                *)
(* A timestamp value is [type, form, secs, digits]: type "absent", "str",  *)
(* "num" or "list"; form (of a string): "iso_z", "iso_naive", "strptime"   *)
(* (only the strptime patterns parse it) or "garbage", secs the instant it *)
(* denotes; digits (of a number): its base-1e9 digits, lowest first.       *)
(***************************************************************************)
Digit(digits, i) == IF i <= Len(digits) THEN digits[i] ELSE 0

\* datetime.fromtimestamp(v / 1e9, tz=utc) raises past the year 9999
\* (253402300799 s)
FromTimestampRaises(digits) ==
    \/ \E i \in 4..Len(digits) : digits[i] # 0
    \/ Digit(digits, 3) > 253
    \/ Digit(digits, 3) = 253 /\ Digit(digits, 2) > 402300799

\* the whole seconds of v / 1e9
NanosToSecs(digits) == Digit(digits, 2) + Digit(digits, 3) * 1000000000

\* the instant of a timestamp value at wall-clock time now: [raises, value]
TimestampOf(ts, now) ==
    IF ts.type = "str" /\ ts.form \in {"iso_z", "iso_naive"}
    THEN [raises |-> FALSE, value |-> DateTime(ts.secs, ts.form = "iso_z")]
    ELSE IF ts.type = "str" /\ ts.form = "strptime"
    THEN [raises |-> FALSE, value |-> DateTime(ts.secs, TRUE)]
    ELSE IF ts.type = "num"
    THEN IF FromTimestampRaises(ts.digits)
         THEN [raises |-> TRUE, value |-> DateTime(now, TRUE)]
         ELSE [raises |-> FALSE, value |-> DateTime(NanosToSecs(ts.digits), TRUE)]
    ELSE [raises |-> FALSE, value |-> DateTime(now, TRUE)]

\* _extract_timestamp(data) at wall-clock time now
_extract_timestampM(data, now) ==
    IF data.timestamp.type = "str" /\ data.timestamp.form = "garbage"
    THEN [raises |-> TRUE, value |-> DateTime(now, TRUE)]
    ELSE TimestampOf(data.timestamp, now)
_extract_timestamp(data, now) == TimestampOf(data.timestamp, now)

\* an element of the list a loader fills
LoadedEntry(n, record, timestamp, truthy) ==
    [line_num |-> n, record |-> record, timestamp |-> timestamp, truthy |-> truthy]

\* _parse_event(data, agent_type, file_type): [event (<<>> is None), warned]
_parse_event(data, n, now) ==
    IF data.kind # "object"
    THEN [event |-> <<>>, warned |-> TRUE]
    ELSE IF _extract_timestamp(data, now).raises
    THEN [event |-> <<>>, warned |-> TRUE]
    ELSE [event |-> <<LoadedEntry(n, 0, _extract_timestamp(data, now).value, TRUE)>>,
          warned |-> FALSE]

\* the state of a load: [loaded, warnings, raised]
\* UnifiedTelemetryAnalyzer._load_file: the loop body on line n
_load_file_line(st, data, n, now) ==
    IF data.kind = "blank" THEN st
    ELSE IF data.kind = "garbage" THEN [st EXCEPT !.warnings = @ + 1]
    ELSE LET r == _parse_event(data, n, now)
         IN  [st EXCEPT !.loaded = @ \o r.event,
                        !.warnings = @ + (IF r.warned THEN 1 ELSE 0)]

\* parse_log_record(log_record): [raises, event (None is falsy)]
parse_log_record(log_record, n, k) ==
    IF log_record = <<>>
    THEN [raises |-> FALSE, event |-> LoadedEntry(n, k, NoneV, FALSE)]
    ELSE IF \E i \in 1..Len(log_record) : log_record[i] = "nokey"
    THEN [raises |-> TRUE, event |-> LoadedEntry(n, k, NoneV, FALSE)]
    ELSE [raises |-> FALSE, event |-> LoadedEntry(n, k, NoneV, TRUE)]

\* parse_jsonl of the flat analyzer: the loop body on line n
FlatParseLine(st, data, n) ==
    IF data.kind = "blank" THEN st
    ELSE IF data.kind = "garbage" THEN [st EXCEPT !.warnings = @ + 1]
    ELSE IF data.kind = "number" THEN [st EXCEPT !.raised = TRUE]
    ELSE IF data.envelope
    THEN IF \E k \in 1..Len(data.resourceLogs) :
                parse_log_record(data.resourceLogs[k], n, k).raises
         THEN [st EXCEPT !.raised = TRUE]
         ELSE [st EXCEPT !.loaded = @ \o
                  [k \in 1..Len(data.resourceLogs) |->
                      parse_log_record(data.resourceLogs[k], n, k).event]]
    ELSE [st EXCEPT !.loaded = Append(@, LoadedEntry(n, 0, NoneV, ~data.empty))]

\* return [e for e in events if e]
IsTruthy(entry) == entry.truthy
FlatParseReturn(entries) == SelectSeq(entries, IsTruthy)

\* TelemetryAnalyzer.parse_jsonl of the packaged archive analyzer: the loop body
ArchiveParseLine(st, data, n) ==
    IF data.kind = "blank" THEN st
    ELSE IF data.kind = "garbage" THEN [st EXCEPT !.warnings = @ + 1]
    ELSE [st EXCEPT !.loaded = Append(@, LoadedEntry(n, 0, NoneV, ~data.empty))]

\* TelemetryAnalyzer.parse_jsonl of analyze-telemetry.py: the loop body
ScriptParseLine(st, data, n) ==
    IF data.kind = "blank" THEN st
    ELSE IF data.kind = "garbage" THEN [st EXCEPT !.raised = TRUE]
    ELSE [st EXCEPT !.loaded = Append(@, LoadedEntry(n, 0, NoneV, ~data.empty))]

(***************************************************************************)
(* Session grouping: analyze_conversation_flow.                            *)
(***************************************************************************)
\* the truth value of an Optional[str]
Truthy(v) == v.tag = "str" /\ v.str # ""

\* session_key = event.trace_id or event.service_name
SessionKeyM(event) == event.service_name
SessionKey(event) == IF Truthy(event.trace_id) THEN event.trace_id ELSE event.service_name

\* sessions[session_key].append(event) on one agent's defaultdict(list)
AppendToSession(sessions, key, event) ==
    IF \E i \in 1..Len(sessions) : sessions[i].session_id = key
    THEN LET i == CHOOSE j \in 1..Len(sessions) : sessions[j].session_id = key
         IN  [sessions EXCEPT ![i].session_events = Append(@, event)]
    ELSE Append(sessions, [session_id |-> key, session_events |-> <<event>>])

\* agent_sessions[event.agent_type][session_key].append(event)
AddEvent(groups, event) ==
    IF \E i \in 1..Len(groups) : groups[i].agent_type = event.agent_type
    THEN LET i == CHOOSE j \in 1..Len(groups) : groups[j].agent_type = event.agent_type
         IN  [groups EXCEPT ![i].sessions =
                 AppendToSession(@, SessionKey(event), event)]
    ELSE Append(groups, [agent_type |-> event.agent_type,
                         sessions |-> AppendToSession(<<>>, SessionKey(event), event)])

\* the first loop of analyze_conversation_flow
RECURSIVE GroupEvents(_, _)
GroupEvents(groups, evs) ==
    IF evs = <<>> THEN groups
    ELSE GroupEvents(AddEvent(groups, Head(evs)), Tail(evs))

\* the (agent, session) pairs in the order the nested loops visit them
RECURSIVE SessionOrder(_)
SessionOrder(groups) ==
    IF groups = <<>> THEN <<>>
    ELSE [i \in 1..Len(Head(groups).sessions) |-> <<1, i>>]
         \o [i \in 1..Len(SessionOrder(Tail(groups))) |->
                <<SessionOrder(Tail(groups))[i][1] + 1, SessionOrder(Tail(groups))[i][2]>>]

\* datetime comparison raises TypeError between an offset-naive and an offset-aware
\* value; a sort of a list that holds both kinds makes such a comparison
SortRaises(evs) ==
    \E i, j \in 1..Len(evs) : evs[i].timestamp.aware # evs[j].timestamp.aware

\* insertion of event behind the elements whose key is not greater (stable)
InsertByTimestampM(sorted, event) ==
    LET k == Cardinality({ i \in 1..Len(sorted) :
                              sorted[i].timestamp.secs < event.timestamp.secs })
    IN  SubSeq(sorted, 1, k) \o <<event>> \o SubSeq(sorted, k + 1, Len(sorted))
RECURSIVE InsertByTimestamp(_, _)
InsertByTimestamp(sorted, event) ==
    IF sorted = <<>> THEN <<event>>
    ELSE IF event.timestamp.secs < Head(sorted).timestamp.secs
         THEN <<event>> \o sorted
         ELSE <<Head(sorted)>> \o InsertByTimestamp(Tail(sorted), event)

RECURSIVE SortLoop(_, _)
SortLoop(sorted, evs) ==
    IF evs = <<>> THEN sorted
    ELSE SortLoop(InsertByTimestamp(sorted, Head(evs)), Tail(evs))

\* session_events.sort(key=lambda x: x.timestamp)
SortByTimestampM(evs) == evs
SortByTimestamp(evs) == SortLoop(<<>>, evs)

_extract_user_nameM(evs) ==
    LET exposing == { i \in 1..Len(evs) :
                         {"user.name", "user_name"} \cap DOMAIN evs[i].attributes # {} }
        last == CHOOSE i \in exposing : \A j \in exposing : j <= i
    IN  IF exposing = {} THEN StrV("Unknown User")
        ELSE Get(evs[last].attributes, "user.name",
                 Get(evs[last].attributes, "user_name", NoneV))
RECURSIVE _extract_user_name(_)
_extract_user_name(evs) ==
    IF evs = <<>> THEN StrV("Unknown User")
    ELSE IF "user.name" \in DOMAIN Head(evs).attributes
         THEN Head(evs).attributes["user.name"]
         ELSE IF "user_name" \in DOMAIN Head(evs).attributes
              THEN Head(evs).attributes["user_name"]
              ELSE _extract_user_name(Tail(evs))

RECURSIVE _extract_user_email(_)
_extract_user_email(evs) ==
    IF evs = <<>> THEN StrV("unknown@example.com")
    ELSE IF "user.email" \in DOMAIN Head(evs).attributes
         THEN Head(evs).attributes["user.email"]
         ELSE IF "user_email" \in DOMAIN Head(evs).attributes
              THEN Head(evs).attributes["user_email"]
              ELSE _extract_user_email(Tail(evs))

\* the flow built from one session's sorted events
\* start_time / end_time = session_events[0] / session_events[-1] .timestamp
FlowTimesM(f, sorted) ==
    [f EXCEPT !.start_time = sorted[Len(sorted)].timestamp,
              !.end_time = sorted[1].timestamp]
FlowTimes(f, sorted) ==
    [f EXCEPT !.start_time = sorted[1].timestamp,
              !.end_time = sorted[Len(sorted)].timestamp]

BuildFlow(agent_type, session_id, sorted) ==
    LET f0 == FlowTimes(ConversationFlow(session_id, agent_type,
                                         _extract_user_name(sorted),
                                         _extract_user_email(sorted), NoneV, NoneV),
                        sorted)
        f1 == [f0 EXCEPT !.turns = _process_conversation_turns(agent_type, sorted)]
    IN  _calculate_flow_statistics(f1)

(***************************************************************************)
(* Turn segmentation of one session, one loop iteration per step.          *)
(***************************************************************************)
\* The event shapes of a session: [operation_name, attributes, logs].
TurnShapes ==
    { [operation_name |-> NoneV, logs |-> <<>>,
       attributes |-> ("user.prompt" :> StrV("A"))],
      [operation_name |-> NoneV, logs |-> <<>>,
       attributes |-> ("prompt" :> StrV("B")) @@ ("tokens.input" :> IntV(2))
                      @@ ("tokens.total" :> IntV(2))],
      [operation_name |-> NoneV, logs |-> <<("message" :> "Prompt via Tool")>>,
       attributes |-> ("tokens.output" :> IntV(1))],
      [operation_name |-> NoneV, logs |-> <<>>,
       attributes |-> ("assistant.response" :> StrV("R1"))
                      @@ ("tokens.output" :> IntV(1))],
      [operation_name |-> NoneV, logs |-> <<>>,
       attributes |-> ("response" :> StrV("R2")) @@ ("tool.result" :> StrV("ok"))
                      @@ ("tokens.input" :> IntV(1)) @@ ("tokens.output" :> IntV(2))
                      @@ ("tokens.total" :> IntV(3))],
      [operation_name |-> NoneV, logs |-> <<>>,
       attributes |-> ("tool.name" :> StrV("Read")) @@ ("tokens.input" :> IntV(1))],
      [operation_name |-> StrV("tool_call"), logs |-> <<("level" :> "info")>>,
       attributes |-> EmptyDict],
      [operation_name |-> NoneV, logs |-> <<>>,
       attributes |-> ("tool.result" :> StrV("ok")) @@ ("tokens.total" :> IntV(2))],
      [operation_name |-> StrV("error"), logs |-> <<>>,
       attributes |-> ("error" :> StrV("boom")) @@ ("duration_ms" :> IntV(7))
                      @@ ("cost_usd" :> IntV(1)) @@ ("tokens.input" :> IntV(2))],
      [operation_name |-> StrV("user_prompt"), logs |-> <<>>,
       attributes |-> ("tokens.input" :> IntV(1000))
                      @@ ("tokens.output" :> IntV(1000))] }

IdleTurns ==
    /\ session_events = <<>>
    /\ current_turn = <<>>
    /\ turn_counter = 0
    /\ flow = <<>>

IdleGroup ==
    /\ events = <<>>
    /\ agent_sessions = <<>>
    /\ conversation_flows = <<>>
    /\ next_session = 0
    /\ analyses = 0

IdleLoad ==
    /\ data_dir = <<>>
    /\ loader = "none"
    /\ file_lines = <<>>
    /\ line_num = 0
    /\ loaded = <<>>
    /\ warnings = 0

IdleRecord ==
    /\ extractor = "none"
    /\ raw_data = <<>>
    /\ extracted = <<>>

IdleRun ==
    /\ entry_point = "none"
    /\ dateutil = FALSE
    /\ input_exists = FALSE
    /\ archive = <<>>
    /\ run_lines = <<>>
    /\ temp_dir = "none"
    /\ tmp_dirs = {}
    /\ run_events = <<>>
    /\ parsed_events = <<>>
    /\ report = <<>>
    /\ stages = {}
    /\ written = FALSE
    /\ exit_status = -1

IdleAux == IdleRecord /\ IdleRun

InitTurns ==
    /\ pc = "turns"
    /\ session_events = <<>>
    /\ current_turn = TurnLoopInit.current_turn
    /\ turn_counter = TurnLoopInit.turn_counter
    /\ flow = ConversationFlow(StrV("s1"), "claude-code", StrV("Unknown User"),
                               StrV("unknown@example.com"), NoneV, NoneV)
    /\ raised = FALSE
    /\ IdleGroup
    /\ IdleLoad
    /\ IdleAux

\* the loop body of _process_conversation_turns on the session's next event
TurnsEvent ==
    /\ pc = "turns"
    /\ Len(session_events) < MaxEvents
    /\ \E shape \in TurnShapes :
        LET event == TelemetryEvent(DateTime(Len(session_events) + 1, TRUE),
                                    flow.agent_type, NoneV, StrV(flow.agent_type),
                                    shape.operation_name, shape.attributes,
                                    shape.logs)
            st == TurnStep([current_turn |-> current_turn,
                            turn_counter |-> turn_counter,
                            turns |-> flow.turns], flow.agent_type, event)
        IN  /\ session_events' = Append(session_events, event)
            /\ current_turn' = st.current_turn
            /\ turn_counter' = st.turn_counter
            /\ flow' = [flow EXCEPT !.turns = st.turns]
    /\ UNCHANGED <<pc, raised, groupVars, loadVars, auxVars>>

\* the end of the loop: the final turn is added
TurnsEnd ==
    /\ pc = "turns"
    /\ flow' = [flow EXCEPT !.turns = CloseTurn(@, current_turn)]
    /\ pc' = "stats"
    /\ UNCHANGED <<session_events, current_turn, turn_counter, raised, groupVars,
                   loadVars, auxVars>>

\* _calculate_flow_statistics(flow)
TurnsStats ==
    /\ pc = "stats"
    /\ flow' = _calculate_flow_statistics(flow)
    /\ pc' = "done"
    /\ UNCHANGED <<session_events, current_turn, turn_counter, raised, groupVars,
                   loadVars, auxVars>>

NextTurns == TurnsEvent \/ TurnsEnd \/ TurnsStats

SpecTurns == InitTurns /\ [][NextTurns]_vars

(***************************************************************************)
(* Properties of turn segmentation.                                        *)
(***************************************************************************)
\* the positions of the user-prompt events of a session
PromptPositions(evs) == { i \in 1..Len(evs) : _is_user_prompt(evs[i]) }

\* the position of the k-th user-prompt event
KthPrompt(evs, k) ==
    LET prompts == PromptPositions(evs)
    IN  CHOOSE p \in prompts : Cardinality({ q \in prompts : q <= p }) = k

\* the last position of the segment opened at prompt position p
SegmentEnd(evs, p) ==
    LET later == { q \in PromptPositions(evs) : q > p }
    IN  IF later # {}
        THEN (CHOOSE q \in later : \A r \in later : q <= r) - 1
        ELSE Len(evs)

\* the events classified as tool call / tool result by the priority of the chain
ClassifiedToolCall(event) ==
    ~_is_user_prompt(event) /\ ~_is_assistant_response(event) /\ _is_tool_call(event)

ClassifiedToolResult(event) ==
    /\ ~_is_user_prompt(event) /\ ~_is_assistant_response(event)
    /\ ~_is_tool_call(event) /\ _is_tool_result(event)

TimestampsOf(seq) == [i \in 1..Len(seq) |-> seq[i].timestamp]

TurnsReturned == pc \in {"stats", "done"}

\* C1: one turn per user-prompt event, in event order; the turn opened by a prompt
\* holds exactly the tool-call and tool-result events between that prompt and the
\* next prompt (or the end of the session), in their order.
C1_OneTurnPerPrompt ==
    TurnsReturned =>
        /\ Len(flow.turns) = Cardinality(PromptPositions(session_events))
        /\ \A k \in 1..Len(flow.turns) :
            LET p == KthPrompt(session_events, k)
                seg == SubSeq(session_events, p + 1, SegmentEnd(session_events, p))
            IN  /\ flow.turns[k].timestamp = session_events[p].timestamp
                /\ flow.turns[k].user_prompt = _extract_user_prompt(session_events[p])
                /\ TimestampsOf(flow.turns[k].tool_calls)
                       = TimestampsOf(SelectSeq(seg, ClassifiedToolCall))
                /\ TimestampsOf(flow.turns[k].tool_results)
                       = TimestampsOf(SelectSeq(seg, ClassifiedToolResult))

\* [prompt A, tool_call X, tool_result X, prompt B] gave two turns, the first with
\* one tool call and one tool result, the second with none
C1_Witness ==
    /\ pc = "done"
    /\ Len(session_events) = 4
    /\ _is_user_prompt(session_events[1])
    /\ ClassifiedToolCall(session_events[2])
    /\ ClassifiedToolResult(session_events[3])
    /\ _is_user_prompt(session_events[4])
    /\ Len(flow.turns) = 2
    /\ Len(flow.turns[1].tool_calls) = 1
    /\ Len(flow.turns[1].tool_results) = 1
    /\ flow.turns[2].tool_calls = <<>>
    /\ flow.turns[2].tool_results = <<>>

\* the position of the first user prompt, or one past the end when there is none
FirstPrompt(evs) ==
    IF PromptPositions(evs) = {} THEN Len(evs) + 1 ELSE KthPrompt(evs, 1)

\* C2: the events before the first user prompt are attached to no turn: the turns
\* are those of the session without its leading events, and a session with no
\* prompt has no turn.
C2_LeadingEventsDropped ==
    TurnsReturned =>
        /\ flow.turns = _process_conversation_turns(flow.agent_type,
               SubSeq(session_events, FirstPrompt(session_events),
                      Len(session_events)))
        /\ \A i \in 1..Len(flow.turns) :
               flow.turns[i].timestamp.secs >= FirstPrompt(session_events)
        /\ PromptPositions(session_events) = {} => flow.turns = <<>>

\* a token-bearing tool call came before the first prompt
C2_Witness ==
    /\ pc = "done"
    /\ Len(session_events) >= 2
    /\ ClassifiedToolCall(session_events[1])
    /\ "tokens.input" \in DOMAIN session_events[1].attributes
    /\ _is_user_prompt(session_events[2])
    /\ Len(flow.turns) = 1
    /\ flow.turns[1].tool_calls = <<>>

\* the sum of the attribute attr over the events at positions lo..hi
RECURSIVE SumAttr(_, _, _, _)
SumAttr(evs, lo, hi, attr) ==
    IF lo > hi THEN 0
    ELSE Get(evs[lo].attributes, attr, IntV(0)).int + SumAttr(evs, lo + 1, hi, attr)

TokenKeys == {"input", "output", "total"}

\* C4: a closed turn's token_usage[k] is the sum of tokens.<k> over the events
\* processed while the turn was current, the opening prompt included.
C4_TokenUsageAdditive ==
    TurnsReturned =>
        \A n \in 1..Len(flow.turns) : \A k \in TokenKeys :
            LET p == KthPrompt(session_events, n)
            IN  Get(flow.turns[n].token_usage, k, 0)
                    = SumAttr(session_events, p, SegmentEnd(session_events, p),
                              "tokens." \o k)

\* the session with the events after its first one reordered by perm
Reordered(evs, perm) ==
    [i \in 1..Len(evs) |-> IF i = 1 THEN evs[1] ELSE evs[perm[i - 1] + 1]]

\* C5: for one prompt followed by non-prompt events, every order of those events
\* gives the same turn token_usage and the same flow total_tokens.
C5_TokenOrderIndependent ==
    (/\ pc = "done"
     /\ PromptPositions(session_events) = {1}) =>
        \A perm \in Permutations(1..(Len(session_events) - 1)) :
            LET f2 == _calculate_flow_statistics(
                        [flow EXCEPT !.turns = _process_conversation_turns(
                            flow.agent_type, Reordered(session_events, perm))])
            IN  /\ f2.turns[1].token_usage = flow.turns[1].token_usage
                /\ f2.total_tokens = flow.total_tokens

\* the sum over the turns of input + 3 * output, in units of 1e-5
RECURSIVE SumTurnCosts(_)
SumTurnCosts(turns) ==
    IF turns = <<>> THEN 0
    ELSE Get(Head(turns).token_usage, "input", 0)
         + 3 * Get(Head(turns).token_usage, "output", 0)
         + SumTurnCosts(Tail(turns))

\* C16: a flow's total_cost is the sum over its turns of input * 0.00001 +
\* output * 0.00003 (in units of 1e-5: input + 3 * output): one turn with
\* input = 1000 and output = 1000 costs 0.04 (4000 units), and a turn with no
\* input / output count adds nothing.
C16_FlowCostIsSumOfTurnCosts ==
    pc = "done" =>
        /\ flow.total_cost = SumTurnCosts(flow.turns)
        /\ (/\ Len(flow.turns) = 1
            /\ Get(flow.turns[1].token_usage, "input", 0) = 1000
            /\ Get(flow.turns[1].token_usage, "output", 0) = 1000)
               => flow.total_cost = 4000
        /\ (\A n \in 1..Len(flow.turns) :
                DOMAIN flow.turns[n].token_usage \cap {"input", "output"} = {})
               => flow.total_cost = 0

\* a turn with input = 1000 and output = 1000 and a turn with no token counts:
\* the flow costs 0.04
C16_Witness ==
    /\ pc = "done"
    /\ Len(flow.turns) = 2
    /\ Get(flow.turns[1].token_usage, "input", 0) = 1000
    /\ Get(flow.turns[1].token_usage, "output", 0) = 1000
    /\ flow.turns[2].token_usage = EmptyDict
    /\ flow.total_cost = 4000

\* one iteration of the loop, seen from outside: what the event at hand may
\* change, by the highest-priority heuristic it matches
C17_PriorityStep ==
    (pc = "turns" /\ Len(session_events') = Len(session_events) + 1) =>
        LET e == session_events'[Len(session_events')]
            open == current_turn # <<>>
        IN  /\ _is_user_prompt(e) =>
                   /\ turn_counter' = turn_counter + 1
                   /\ flow'.turns = IF open THEN Append(flow.turns, current_turn[1])
                                             ELSE flow.turns
                   /\ current_turn' # <<>>
                   /\ current_turn'[1].turn_id = turn_counter'
                   /\ current_turn'[1].assistant_response = NoneV
                   /\ current_turn'[1].tool_calls = <<>>
                   /\ current_turn'[1].tool_results = <<>>
            /\ ~_is_user_prompt(e) =>
                   /\ turn_counter' = turn_counter
                   /\ flow'.turns = flow.turns
                   /\ (current_turn' = <<>>) = ~open
            /\ (~_is_user_prompt(e) /\ open) =>
                   LET old == current_turn[1]
                       new == current_turn'[1]
                   IN  /\ new.turn_id = old.turn_id
                       /\ new.user_prompt = old.user_prompt
                       /\ IF _is_assistant_response(e)
                          THEN /\ new.assistant_response = _extract_assistant_response(e)
                               /\ new.tool_calls = old.tool_calls
                               /\ new.tool_results = old.tool_results
                          ELSE IF _is_tool_call(e)
                          THEN /\ new.assistant_response = old.assistant_response
                               /\ new.tool_calls
                                      = Append(old.tool_calls, _extract_tool_call(e))
                               /\ new.tool_results = old.tool_results
                          ELSE IF _is_tool_result(e)
                          THEN /\ new.assistant_response = old.assistant_response
                               /\ new.tool_calls = old.tool_calls
                               /\ new.tool_results
                                      = Append(old.tool_results, _extract_tool_result(e))
                          ELSE /\ new.assistant_response = old.assistant_response
                               /\ new.tool_calls = old.tool_calls
                               /\ new.tool_results = old.tool_results
            /\ current_turn' # <<>> =>
                   \A k \in TokenKeys :
                       ("tokens." \o k) \in DOMAIN e.attributes =>
                           /\ k \in DOMAIN current_turn'[1].token_usage
                           /\ current_turn'[1].token_usage[k]
                                  = e.attributes["tokens." \o k].int

\* C17: classification is by the fixed priority prompt > response > tool call >
\* tool result: an event matching several heuristics changes the turn structure
\* by its highest-priority classification only, and its token attributes are
\* applied to the current turn whatever its classification.
C17_ClassificationPriority == [][C17_PriorityStep]_vars

\* [prompt, response that is also a tool result, prompt that is also a tool call]:
\* the first turn got the response and no tool result, the second turn no tool
\* call, and both got the tokens of these events
C17_Witness ==
    /\ pc = "turns"
    /\ Len(session_events) = 3
    /\ _is_assistant_response(session_events[2]) /\ _is_tool_result(session_events[2])
    /\ _is_user_prompt(session_events[3]) /\ _is_tool_call(session_events[3])
    /\ Len(flow.turns) = 1
    /\ flow.turns[1].assistant_response = StrV("R2")
    /\ flow.turns[1].tool_results = <<>>
    /\ Get(flow.turns[1].token_usage, "input", 0) = 1
    /\ current_turn # <<>>
    /\ current_turn[1].tool_calls = <<>>
    /\ Get(current_turn[1].token_usage, "output", 0) = 1

(***************************************************************************)
(* Session grouping, one session per step.                                 *)
(***************************************************************************)
\* The events a run may have loaded.
GroupShapes ==
    { TelemetryEvent(DateTime(3, TRUE), "claude-code", StrV("t1"), StrV("claude-code"),
                     NoneV, ("user.prompt" :> StrV("A")) @@ ("user.name" :> StrV("alice")),
                     <<>>),
      TelemetryEvent(DateTime(1, TRUE), "claude-code", StrV("t1"), StrV("claude-code"),
                     NoneV, ("tool.name" :> StrV("Read")) @@ ("tokens.input" :> IntV(1)),
                     <<>>),
      TelemetryEvent(DateTime(1, TRUE), "claude-code", StrV("t1"), StrV("claude-code"),
                     NoneV, ("prompt" :> StrV("B")) @@ ("user.name" :> StrV("bob"))
                            @@ ("tokens.input" :> IntV(2)),
                     <<>>),
      TelemetryEvent(DateTime(2, TRUE), "gemini-cli", StrV("t1"), StrV("gemini-cli"),
                     NoneV, ("prompt" :> StrV("B")), <<>>),
      TelemetryEvent(DateTime(2, TRUE), "claude-code", NoneV, StrV("claude-code"),
                     StrV("tool_call"), ("user.email" :> StrV("b@x")), <<>>),
      TelemetryEvent(DateTime(1, TRUE), "claude-code", StrV(""), StrV("claude-code"),
                     StrV("user_prompt"), ("user_email" :> StrV("a@x")), <<>>),
      TelemetryEvent(DateTime(1, TRUE), "claude-code", NoneV, StrV("t1"),
                     NoneV, ("tool.result" :> StrV("ok")), <<>>),
      TelemetryEvent(DateTime(2, FALSE), "claude-code", StrV("t2"), StrV("claude-code"),
                     NoneV, ("prompt" :> StrV("C")), <<>>),
      TelemetryEvent(DateTime(1, TRUE), "claude-code", StrV("t2"), StrV("claude-code"),
                     NoneV, ("tool.name" :> StrV("Bash")), <<>>),
      TelemetryEvent(DateTime(3, TRUE), "gemini-cli", NoneV, StrV("gemini-cli"),
                     NoneV, ("response" :> StrV("R")) @@ ("tokens.output" :> IntV(1)),
                     <<>>) }

InitGroup ==
    /\ pc = "load"
    /\ events = <<>>
    /\ agent_sessions = <<>>
    /\ conversation_flows = <<>>
    /\ next_session = 0
    /\ analyses = 0
    /\ raised = FALSE
    /\ IdleTurns
    /\ IdleLoad
    /\ IdleAux

\* self.events.append(event), as the loading stage does
GroupLoadEvent ==
    /\ pc = "load"
    /\ Len(events) < MaxGroupEvents
    /\ \E event \in GroupShapes : events' = Append(events, event)
    /\ UNCHANGED <<pc, agent_sessions, conversation_flows, next_session, raised,
                   analyses, turnVars, loadVars, auxVars>>

\* analyze_conversation_flow: the grouping loop
GroupPartition ==
    /\ pc = "load"
    /\ agent_sessions' = GroupEvents(<<>>, events)
    /\ next_session' = 0
    /\ pc' = "sessions"
    /\ UNCHANGED <<events, conversation_flows, raised, analyses, turnVars, loadVars,
                   auxVars>>

\* the session the second loop visits next
NextSession == SessionOrder(agent_sessions)[next_session + 1]

NextSessionEvents ==
    agent_sessions[NextSession[1]].sessions[NextSession[2]].session_events

\* analyze_conversation_flow: one iteration of the second loop
GroupSession ==
    /\ pc = "sessions"
    /\ next_session < Len(SessionOrder(agent_sessions))
    /\ ~SortRaises(NextSessionEvents)
    /\ LET a == NextSession[1]
           k == NextSession[2]
           sorted == SortByTimestamp(NextSessionEvents)
       IN  /\ agent_sessions' =
                  [agent_sessions EXCEPT ![a].sessions[k].session_events = sorted]
           /\ conversation_flows' =
                  Append(conversation_flows,
                         BuildFlow(agent_sessions[a].agent_type,
                                   agent_sessions[a].sessions[k].session_id, sorted))
    /\ next_session' = next_session + 1
    /\ UNCHANGED <<pc, events, raised, analyses, turnVars, loadVars, auxVars>>

\* analyze_conversation_flow: the sort raises TypeError, which leaves the method;
\* nothing reads the session lists afterwards
GroupSortRaises ==
    /\ pc = "sessions"
    /\ next_session < Len(SessionOrder(agent_sessions))
    /\ SortRaises(NextSessionEvents)
    /\ raised' = TRUE
    /\ pc' = "done"
    /\ UNCHANGED <<events, agent_sessions, conversation_flows, next_session,
                   analyses, turnVars, loadVars, auxVars>>

\* analyze_conversation_flow returns
GroupFinish ==
    /\ pc = "sessions"
    /\ next_session = Len(SessionOrder(agent_sessions))
    /\ pc' = "done"
    /\ UNCHANGED <<events, agent_sessions, conversation_flows, next_session, raised,
                   analyses, turnVars, loadVars, auxVars>>

NextGroup == GroupLoadEvent \/ GroupPartition \/ GroupSession \/ GroupSortRaises
             \/ GroupFinish

SpecGroup == InitGroup /\ [][NextGroup]_vars

(***************************************************************************)
(* Properties of session grouping.                                         *)
(***************************************************************************)
Range(seq) == { seq[i] : i \in 1..Len(seq) }

CountIn(seq, x) == Cardinality({ i \in 1..Len(seq) : seq[i] = x })

\* the n-th session in visiting order
SessionAt(n) ==
    LET idx == SessionOrder(agent_sessions)[n]
    IN  [agent_type |-> agent_sessions[idx[1]].agent_type,
         session_id |-> agent_sessions[idx[1]].sessions[idx[2]].session_id,
         session_events |-> agent_sessions[idx[1]].sessions[idx[2]].session_events]

SessionCount == Len(SessionOrder(agent_sessions))

Grouped == pc \in {"sessions", "done"}

\* C3: in every flow the i-th turn has turn_id i, so the ids are 1-based, without
\* gaps, and restart at 1 in every session.
C3_TurnIdsOneBased ==
    \A n \in 1..Len(conversation_flows) :
        \A i \in 1..Len(conversation_flows[n].turns) :
            conversation_flows[n].turns[i].turn_id = i

\* two sessions with turns, one of them with two turns
C3_Witness ==
    /\ pc = "done"
    /\ Len(conversation_flows) = 2
    /\ Len(conversation_flows[1].turns) = 2
    /\ Len(conversation_flows[2].turns) = 1
    /\ conversation_flows[2].turns[1].turn_id = 1

\* the key as the claim states it: trace_id if present, else service_name
HasTraceId(event) == event.trace_id # NoneV /\ event.trace_id # StrV("")
ClaimKey(event) == IF HasTraceId(event) THEN event.trace_id ELSE event.service_name

InSameSession(e1, e2) ==
    \E n \in 1..SessionCount :
        e1 \in Range(SessionAt(n).session_events)
        /\ e2 \in Range(SessionAt(n).session_events)

RECURSIVE TotalLen(_)
TotalLen(n) == IF n = 0 THEN 0 ELSE Len(SessionAt(n).session_events) + TotalLen(n - 1)

\* C6 as stated: events with the same non-empty trace_id share a session, events
\* without trace_id and with the same service_name share a session, and events with
\* different keys never do.
C6_SameKeySameSession ==
    Grouped =>
        \A i, j \in 1..Len(events) :
            LET e1 == events[i]
                e2 == events[j]
            IN  /\ (HasTraceId(e1) /\ e1.trace_id = e2.trace_id)
                       => InSameSession(e1, e2)
                /\ (~HasTraceId(e1) /\ ~HasTraceId(e2)
                    /\ e1.service_name = e2.service_name) => InSameSession(e1, e2)
                /\ ClaimKey(e1) # ClaimKey(e2) => ~InSameSession(e1, e2)

\* C6 amended: two events share a session exactly when they have the same
\* agent_type and the same key; every event is in one session; a completed
\* analysis holds one flow per (agent_type, key) pair.
C6_SameAgentAndKeySameSession ==
    Grouped =>
        /\ \A i, j \in 1..Len(events) :
               InSameSession(events[i], events[j])
                   <=> (/\ events[i].agent_type = events[j].agent_type
                        /\ ClaimKey(events[i]) = ClaimKey(events[j]))
        /\ TotalLen(SessionCount) = Len(events)
        /\ (pc = "done" /\ ~raised) =>
               /\ Len(conversation_flows)
                      = Cardinality({ <<e.agent_type, ClaimKey(e)>> : e \in Range(events) })
               /\ \A e \in Range(events) :
                      \E n \in 1..Len(conversation_flows) :
                          /\ conversation_flows[n].agent_type = e.agent_type
                          /\ conversation_flows[n].session_id = ClaimKey(e)

\* two events of one agent share a trace_id and a session; a third event with the
\* same trace_id from another agent has a session of its own
C6_Witness ==
    /\ pc = "done"
    /\ ~raised
    /\ Len(events) = 3
    /\ HasTraceId(events[1])
    /\ events[1].trace_id = events[2].trace_id
    /\ events[1].trace_id = events[3].trace_id
    /\ events[1] # events[3]
    /\ events[1].agent_type = events[3].agent_type
    /\ events[1].agent_type # events[2].agent_type
    /\ InSameSession(events[1], events[3])
    /\ ~InSameSession(events[1], events[2])
    /\ Len(conversation_flows) = 2

Ascending(evs) ==
    \A i \in 1..(Len(evs) - 1) : evs[i].timestamp.secs <= evs[i + 1].timestamp.secs

\* C7: every session handed to turn segmentation is ascending by timestamp and
\* holds the session's events whatever their input order; the flow's start_time
\* and end_time are the timestamps of its first and last event, start <= end.
C7_SessionsSorted ==
    Grouped =>
        /\ Len(conversation_flows) = next_session
        /\ \A n \in 1..next_session :
            LET sess == SessionAt(n)
                f == conversation_flows[n]
                sorted == sess.session_events
            IN  /\ Ascending(sorted)
                /\ \A e \in Range(events) :
                       CountIn(sorted, e) =
                           IF e.agent_type = sess.agent_type
                              /\ SessionKey(e) = sess.session_id
                           THEN CountIn(events, e) ELSE 0
                /\ f.turns = _process_conversation_turns(sess.agent_type, sorted)
                /\ f.start_time = sorted[1].timestamp
                /\ f.end_time = sorted[Len(sorted)].timestamp
                /\ f.start_time.secs <= f.end_time.secs

\* a session loaded in reverse chronological order was sorted and analyzed
C7_Witness ==
    /\ pc = "done"
    /\ ~raised
    /\ Len(events) = 3
    /\ \A i \in 1..2 : events[i].timestamp.secs >= events[i + 1].timestamp.secs
    /\ events[1].timestamp.secs > events[2].timestamp.secs
    /\ Len(conversation_flows) = 1
    /\ SessionAt(1).session_events[3] = events[1]
    /\ conversation_flows[1].start_time.secs < conversation_flows[1].end_time.secs

(***************************************************************************)
(* Loading one file, one line per step.                                    *)
(***************************************************************************)
NoTimestamp == [type |-> "absent", form |-> "", secs |-> 0, digits |-> <<>>]
StrTimestamp(form, secs) == [type |-> "str", form |-> form, secs |-> secs, digits |-> <<>>]
NumTimestamp(digits) == [type |-> "num", form |-> "", secs |-> 0, digits |-> digits]
ListTimestamp == [type |-> "list", form |-> "", secs |-> 0, digits |-> <<>>]

JsonLine(kind, timestamp, envelope, resourceLogs, empty) ==
    [kind |-> kind, timestamp |-> timestamp, envelope |-> envelope,
     resourceLogs |-> resourceLogs, empty |-> empty]

DirectLine(timestamp) == JsonLine("object", timestamp, FALSE, <<>>, FALSE)
EnvelopeLine(records) == JsonLine("object", NoTimestamp, TRUE, records, FALSE)

\* The lines a file may hold.
LineShapes ==
    { JsonLine("blank", NoTimestamp, FALSE, <<>>, FALSE),
      JsonLine("garbage", NoTimestamp, FALSE, <<>>, FALSE),
      JsonLine("number", NoTimestamp, FALSE, <<>>, FALSE),
      JsonLine("object", NoTimestamp, FALSE, <<>>, TRUE),
      DirectLine(NoTimestamp),
      DirectLine(StrTimestamp("iso_z", 2)),
      DirectLine(StrTimestamp("garbage", 0)),
      DirectLine(ListTimestamp),
      DirectLine(NumTimestamp(<<0, 700000000, 1>>)),
      DirectLine(NumTimestamp(<<700000000, 1>>)),
      DirectLine(NumTimestamp(<<0, 0, 0, 1>>)),
      EnvelopeLine(<<<<"kv">>, <<"kv", "kv">>>>),
      EnvelopeLine(<<<<"kv">>, <<"nokey">>>>) }

\* The readings of the wall clock.
NowValues == {8, 9}

Loaders == {"unified", "flat", "archive", "script"}

RECURSIVE SeqsUpTo(_, _)
SeqsUpTo(S, n) ==
    IF n = 0 THEN {<<>>}
    ELSE SeqsUpTo(S, n - 1)
         \cup { Append(q, x) : q \in { r \in SeqsUpTo(S, n - 1) : Len(r) = n - 1 },
                               x \in S }

InitLoad ==
    /\ data_dir = <<>>
    /\ pc = "lines"
    /\ loader \in Loaders
    /\ file_lines \in SeqsUpTo(LineShapes, MaxLines)
    /\ line_num = 0
    /\ loaded = <<>>
    /\ warnings = 0
    /\ raised = FALSE
    /\ IdleTurns
    /\ IdleGroup
    /\ IdleAux

LoadState == [loaded |-> loaded, warnings |-> warnings, raised |-> raised]

\* the effect of one loop iteration; an exception ends the load and its list is lost
LoadStep(st) ==
    /\ line_num' = line_num + 1
    /\ warnings' = st.warnings
    /\ raised' = st.raised
    /\ loaded' = IF st.raised THEN <<>> ELSE st.loaded
    /\ pc' = IF st.raised THEN "done" ELSE pc
    /\ UNCHANGED <<loader, file_lines, data_dir, turnVars, groupVars, auxVars>>

\* UnifiedTelemetryAnalyzer._load_file reads the next line
LoadLineUnified ==
    /\ pc = "lines" /\ loader = "unified" /\ line_num < Len(file_lines)
    /\ \E now \in NowValues :
           LoadStep(_load_file_line(LoadState, file_lines[line_num + 1],
                                    line_num + 1, now))

\* parse_jsonl of the flat analyzer reads the next line
LoadLineFlat ==
    /\ pc = "lines" /\ loader = "flat" /\ line_num < Len(file_lines)
    /\ LoadStep(FlatParseLine(LoadState, file_lines[line_num + 1], line_num + 1))

\* parse_jsonl of the packaged archive analyzer reads the next line
LoadLineArchive ==
    /\ pc = "lines" /\ loader = "archive" /\ line_num < Len(file_lines)
    /\ LoadStep(ArchiveParseLine(LoadState, file_lines[line_num + 1], line_num + 1))

\* parse_jsonl of analyze-telemetry.py reads the next line
LoadLineScript ==
    /\ pc = "lines" /\ loader = "script" /\ line_num < Len(file_lines)
    /\ LoadStep(ScriptParseLine(LoadState, file_lines[line_num + 1], line_num + 1))

\* the end of the file: the loader returns
LoadReturn ==
    /\ pc = "lines" /\ line_num = Len(file_lines)
    /\ loaded' = IF loader = "flat" THEN FlatParseReturn(loaded) ELSE loaded
    /\ pc' = "done"
    /\ UNCHANGED <<loader, file_lines, line_num, warnings, raised, data_dir, turnVars,
                   groupVars, auxVars>>

NextLoad == LoadLineUnified \/ LoadLineFlat \/ LoadLineArchive \/ LoadLineScript
            \/ LoadReturn

SpecLoad == InitLoad /\ [][NextLoad]_vars

(***************************************************************************)
(* Properties of ingestion.                                                *)
(***************************************************************************)
\* valid JSON whose shape breaks the record extraction of the loader at hand: a
\* non-object value or an out-of-range numeric timestamp (unified), a non-object
\* value or an attribute entry without key (flat); the archive loaders extract
\* nothing from a record
BreaksExtraction(line) ==
    \/ /\ loader \in {"unified", "flat"}
       /\ line.kind = "number"
    \/ /\ loader = "unified"
       /\ line.kind = "object" /\ line.timestamp.type = "num"
       /\ FromTimestampRaises(line.timestamp.digits)
    \/ /\ loader = "flat"
       /\ line.kind = "object" /\ line.envelope
       /\ \E k \in 1..Len(line.resourceLogs) :
              \E i \in 1..Len(line.resourceLogs[k]) : line.resourceLogs[k][i] = "nokey"

Malformed(line) == line.kind = "garbage" \/ BreaksExtraction(line)

WellFormed(line) == line.kind \in {"number", "object"} /\ ~BreaksExtraction(line)

CountLines(P(_)) == Cardinality({ i \in 1..Len(file_lines) : P(file_lines[i]) })

\* C8: in the loaders of the unified, flat and packaged archive analyzers, a file
\* with N well-formed and M malformed lines gives N events and M warnings, and
\* the load never raises.
C8_EventsAndWarningsCounted ==
    (pc = "done" /\ loader \in {"unified", "flat", "archive"}) =>
        /\ ~raised
        /\ Len(loaded) = CountLines(WellFormed)
        /\ warnings = CountLines(Malformed)

IngestedLine(i) == \E k \in 1..Len(loaded) : loaded[k].line_num = i

\* C9: in every loader a bad line is skipped, no exception leaves the load, and
\* the good lines behind it are ingested.
C9_BadLineSkipped ==
    pc = "done" =>
        /\ ~raised
        /\ \A i, j \in 1..Len(file_lines) :
               (i < j /\ Malformed(file_lines[i]) /\ WellFormed(file_lines[j])
                /\ ~file_lines[j].envelope /\ ~file_lines[j].empty)
                   => IngestedLine(j)

\* a record whose timestamp is absent, of an unsupported type or an unparseable
\* string
DefaultedTimestamp(line) ==
    /\ line.kind = "object"
    /\ \/ line.timestamp.type \in {"absent", "list"}
       \/ line.timestamp.type = "str" /\ line.timestamp.form = "garbage"

\* C10: in the unified analyzer every record whose timestamp is absent, of an
\* unsupported type or an unparseable string yields one event, stamped with the
\* wall-clock time, with no warning and no exception.
C10_TimestampDefaulted ==
    loader = "unified" =>
        /\ ~raised
        /\ \A i \in 1..line_num :
               DefaultedTimestamp(file_lines[i]) =>
                   /\ Cardinality({ k \in 1..Len(loaded) : loaded[k].line_num = i }) = 1
                   /\ \A k \in 1..Len(loaded) :
                          loaded[k].line_num = i =>
                              /\ loaded[k].timestamp.secs \in NowValues
                              /\ loaded[k].timestamp.aware
        /\ warnings <= Cardinality({ i \in 1..line_num :
                                        ~DefaultedTimestamp(file_lines[i]) })

\* a file with an unparseable string, an unsupported type and no timestamp was
\* loaded into three events
C10_Witness ==
    /\ pc = "done"
    /\ loader = "unified"
    /\ Len(file_lines) = 3
    /\ file_lines[1].timestamp.type = "str" /\ file_lines[1].timestamp.form = "garbage"
    /\ file_lines[2].timestamp.type = "list"
    /\ file_lines[3].kind = "object" /\ file_lines[3].timestamp.type = "absent"
    /\ Len(loaded) = 3
    /\ warnings = 0

\* v * 1e9 of a numeric timestamp v (base-1e9 digits, lowest first)
ScaledToNanos(digits) == <<0>> \o digits

\* C11: in the unified analyzer a numeric timestamp v and the timestamp v * 1e9
\* resolve to the same instant.
C11_ScaledTimestampSameInstant ==
    (pc = "done" /\ loader = "unified") =>
        \A i, j \in 1..Len(loaded) :
            LET ti == file_lines[loaded[i].line_num].timestamp
                tj == file_lines[loaded[j].line_num].timestamp
            IN  (ti.type = "num" /\ tj.type = "num"
                 /\ tj.digits = ScaledToNanos(ti.digits))
                    => loaded[i].timestamp = loaded[j].timestamp

(***************************************************************************)
(* Attribute extraction.  A record is [attributes, resource, body]:        *)
(* attributes is [kind, dict, list] with kind "absent", "dict" (a mapping) *)
(* or "list" (OpenTelemetry key/value entries); resource is                *)
(* [present, attributes]; body is the body's stringValue (NoneV if the     *)
(* record has no body).  An entry is [has_key, key, has_value, value], a   *)
(* value [object, fields, scalar]: a value object with the fields present  *)
(* among stringValue, intValue, doubleValue, boolValue, or a plain scalar. *)
(***************************************************************************)
ValueObject(fields) == [object |-> TRUE, fields |-> fields, scalar |-> NoneV]
PlainValue(v) == [object |-> FALSE, fields |-> EmptyDict, scalar |-> v]
Entry(key, value) == [has_key |-> TRUE, key |-> key, has_value |-> TRUE, value |-> value]
KeylessEntry(value) == [has_key |-> FALSE, key |-> "", has_value |-> TRUE, value |-> value]

\* int(x)
IntCast(v) ==
    IF v.tag = "int" THEN v
    ELSE IF v.str = "7" THEN IntV(7)
    ELSE IntV(0)

\* float(x)
FloatCast(v) ==
    IF v.tag = "float" THEN v
    ELSE IF v.tag = "int" /\ v.int = 2 THEN FloatV("2.0")
    ELSE FloatV("0.0")

\* d.update(e)
Update(d, e) ==
    [k \in DOMAIN d \cup DOMAIN e |-> IF k \in DOMAIN e THEN e[k] ELSE d[k]]

\* _extract_attributes: the loop body on one entry of a list-typed attributes
UnifiedEntry(attributes, attr) ==
    IF attr.has_key /\ attr.has_value
    THEN IF attr.value.object
         THEN IF "stringValue" \in DOMAIN attr.value.fields
              THEN Put(attributes, attr.key, attr.value.fields["stringValue"])
              ELSE IF "intValue" \in DOMAIN attr.value.fields
              THEN Put(attributes, attr.key, attr.value.fields["intValue"])
              ELSE IF "boolValue" \in DOMAIN attr.value.fields
              THEN Put(attributes, attr.key, attr.value.fields["boolValue"])
              ELSE attributes
         ELSE Put(attributes, attr.key, attr.value.scalar)
    ELSE attributes

RECURSIVE UnifiedEntries(_, _)
UnifiedEntries(attributes, attrs) ==
    IF attrs = <<>> THEN attributes
    ELSE UnifiedEntries(UnifiedEntry(attributes, Head(attrs)), Tail(attrs))

\* _extract_attributes: the event-level attributes ("Direct attributes")
DirectAttributes(data) ==
    IF data.attributes.kind = "dict"
    THEN Update(EmptyDict, data.attributes.dict)
    ELSE IF data.attributes.kind = "list"
    THEN UnifiedEntries(EmptyDict, data.attributes.list)
    ELSE EmptyDict

\* UnifiedTelemetryAnalyzer._extract_attributes(data)
_extract_attributes(data) ==
    IF data.resource.present
    THEN Update(DirectAttributes(data), data.resource.attributes)
    ELSE DirectAttributes(data)

\* parse_log_record: the loop body on one entry; st is [raises, attributes]
FlatEntry(st, attr) ==
    IF st.raises \/ ~attr.has_key \/ ~attr.has_value
    THEN [st EXCEPT !.raises = TRUE]
    ELSE IF attr.value.object
    THEN IF "stringValue" \in DOMAIN attr.value.fields
         THEN [st EXCEPT !.attributes =
                  Put(@, attr.key, attr.value.fields["stringValue"])]
         ELSE IF "intValue" \in DOMAIN attr.value.fields
         THEN [st EXCEPT !.attributes =
                  Put(@, attr.key, IntCast(attr.value.fields["intValue"]))]
         ELSE IF "doubleValue" \in DOMAIN attr.value.fields
         THEN [st EXCEPT !.attributes =
                  Put(@, attr.key, FloatCast(attr.value.fields["doubleValue"]))]
         ELSE st
    ELSE [st EXCEPT !.attributes = Put(@, attr.key, attr.value.scalar)]

RECURSIVE FlatEntries(_, _)
FlatEntries(st, attrs) ==
    IF attrs = <<>> THEN st
    ELSE FlatEntries(FlatEntry(st, Head(attrs)), Tail(attrs))

\* what an extraction hands back: [raises, none, event_name, attributes]
Extraction(raises, none, event_name, attributes) ==
    [raises |-> raises, none |-> none, event_name |-> event_name,
     attributes |-> attributes]

\* the event name of parse_log_record: the body's stringValue, else the
\* event.name attribute, else ''
LogRecordEventName(log_record, attributes) ==
    IF log_record.body.tag = "str" /\ log_record.body.str # ""
    THEN log_record.body
    ELSE IF "event.name" \in DOMAIN attributes
    THEN attributes["event.name"]
    ELSE StrV("")

\* parse_log_record(log_record), the whole result
LogRecordEvent(log_record) ==
    IF \/ log_record.attributes.kind = "absent"
       \/ log_record.attributes.kind = "list" /\ log_record.attributes.list = <<>>
       \/ log_record.attributes.kind = "dict"
          /\ DOMAIN log_record.attributes.dict = {}
    THEN Extraction(FALSE, TRUE, NoneV, EmptyDict)
    ELSE IF log_record.attributes.kind = "dict"
    THEN Extraction(TRUE, TRUE, NoneV, EmptyDict)
    ELSE LET st == FlatEntries([raises |-> FALSE, attributes |-> EmptyDict],
                               log_record.attributes.list)
         IN  IF st.raises
             THEN Extraction(TRUE, TRUE, NoneV, EmptyDict)
             ELSE Extraction(FALSE, FALSE,
                             LogRecordEventName(log_record, st.attributes),
                             st.attributes)

(***************************************************************************)
(* Extracting the attributes of one record.                                  *)
(***************************************************************************)
EntryShapes ==
    { Entry("a", ValueObject("stringValue" :> StrV("s"))),
      Entry("a", ValueObject("intValue" :> StrV("7"))),
      Entry("a", ValueObject("doubleValue" :> FloatV("1.5"))),
      Entry("a", ValueObject("boolValue" :> BoolV(TRUE))),
      Entry("a", ValueObject(EmptyDict)),
      Entry("event.name", ValueObject(("stringValue" :> StrV("evt"))
                                      @@ ("intValue" :> IntV(7)))),
      Entry("b", PlainValue(IntV(3))),
      KeylessEntry(ValueObject("stringValue" :> StrV("s"))) }

AttributeShapes ==
    { [kind |-> "absent", dict |-> EmptyDict, list |-> <<>>],
      [kind |-> "dict", dict |-> ("a" :> StrV("e")), list |-> <<>>] }
    \cup { [kind |-> "list", dict |-> EmptyDict, list |-> l] :
               l \in SeqsUpTo(EntryShapes, MaxEntries) }

ResourceShapes ==
    { [present |-> FALSE, attributes |-> EmptyDict],
      [present |-> TRUE, attributes |-> ("a" :> StrV("r"))],
      [present |-> TRUE, attributes |-> ("c" :> StrV("r"))] }

BodyShapes == { NoneV, StrV(""), StrV("body") }

Extractors == {"unified", "flat"}

InitRecord ==
    /\ pc = "record"
    /\ extractor \in Extractors
    /\ raw_data \in [attributes : AttributeShapes, resource : ResourceShapes,
                    body : BodyShapes]
    /\ extracted = <<>>
    /\ raised = FALSE
    /\ IdleTurns
    /\ IdleGroup
    /\ IdleLoad
    /\ IdleRun

\* _parse_event: attributes=self._extract_attributes(data)
ExtractUnified ==
    /\ pc = "record" /\ extractor = "unified"
    /\ extracted' = <<Extraction(FALSE, FALSE, NoneV, _extract_attributes(raw_data))>>
    /\ pc' = "done"
    /\ UNCHANGED <<extractor, raw_data, raised, turnVars, groupVars, loadVars,
                   runVars>>

\* parse_jsonl: events.append(parse_log_record(log_record))
ExtractFlat ==
    /\ pc = "record" /\ extractor = "flat"
    /\ LET r == LogRecordEvent(raw_data)
       IN  /\ raised' = r.raises
           /\ extracted' = IF r.raises THEN <<>> ELSE <<r>>
    /\ pc' = "done"
    /\ UNCHANGED <<extractor, raw_data, turnVars, groupVars, loadVars, runVars>>

NextRecord == ExtractUnified \/ ExtractFlat

SpecRecord == InitRecord /\ [][NextRecord]_vars

(***************************************************************************)
(* Properties of attribute extraction.                                     *)
(***************************************************************************)
\* C18: a key present at event level and at resource level keeps its event-level
\* value in the mapping _extract_attributes returns.
C18_EventLevelWins ==
    (pc = "done" /\ extractor = "unified" /\ raw_data.resource.present) =>
        \A k \in DOMAIN DirectAttributes(raw_data)
                  \cap DOMAIN raw_data.resource.attributes :
            extracted[1].attributes[k] = DirectAttributes(raw_data)[k]

\* the record has an event name source: a non-empty body.stringValue or an
\* event.name attribute
HasNameSource(log_record) ==
    \/ log_record.body.tag = "str" /\ log_record.body.str # ""
    \/ \E i \in 1..Len(log_record.attributes.list) :
           /\ log_record.attributes.list[i].has_key
           /\ log_record.attributes.list[i].key = "event.name"

\* C19: parse_log_record turns a logRecord into an event exactly when it has a
\* non-empty attributes array and an event name source; otherwise it returns
\* nothing, without error.
C19_EventOnlyWithAttributesAndName ==
    (/\ pc = "done" /\ extractor = "flat"
     /\ raw_data.attributes.kind \in {"absent", "list"}
     /\ \A i \in 1..Len(raw_data.attributes.list) : raw_data.attributes.list[i].has_key)
        => /\ ~raised
           /\ extracted # <<>>
           /\ ~extracted[1].none
                  = (raw_data.attributes.list # <<>> /\ HasNameSource(raw_data))

\* the unwrapping of one entry by the preference stringValue, intValue (as
\* integer), doubleValue (as float), boolValue
PreferredEntry(attributes, attr) ==
    IF ~attr.has_key THEN attributes
    ELSE IF ~attr.value.object THEN Put(attributes, attr.key, attr.value.scalar)
    ELSE IF "stringValue" \in DOMAIN attr.value.fields
    THEN Put(attributes, attr.key, attr.value.fields["stringValue"])
    ELSE IF "intValue" \in DOMAIN attr.value.fields
    THEN Put(attributes, attr.key, IntCast(attr.value.fields["intValue"]))
    ELSE IF "doubleValue" \in DOMAIN attr.value.fields
    THEN Put(attributes, attr.key, FloatCast(attr.value.fields["doubleValue"]))
    ELSE IF "boolValue" \in DOMAIN attr.value.fields
    THEN Put(attributes, attr.key, attr.value.fields["boolValue"])
    ELSE attributes

RECURSIVE PreferredEntries(_, _)
PreferredEntries(attributes, attrs) ==
    IF attrs = <<>> THEN attributes
    ELSE PreferredEntries(PreferredEntry(attributes, Head(attrs)), Tail(attrs))

\* C20: each entry of a list-typed attributes field is unwrapped by the
\* preference stringValue, intValue (as integer), doubleValue (as float),
\* boolValue; an entry with none of them adds no key, an entry with only
\* doubleValue or only boolValue adds its key.
C20_ValueUnwrapPreference ==
    (/\ pc = "done" /\ extracted # <<>> /\ ~extracted[1].none
     /\ raw_data.attributes.kind = "list" /\ ~raw_data.resource.present)
        => extracted[1].attributes
               = PreferredEntries(EmptyDict, raw_data.attributes.list)

(***************************************************************************)
(* The runs of the command-line entry points.  A line of the telemetry     *)
(* file is [kind, doc]: kind "garbage" (not JSON) or "object", doc the     *)
(* parsed object, a dict of scalars.  A report is a sequence of items      *)
(* [kind, text, n].                                                        *)
(***************************************************************************)
RunLine(kind, doc) == [kind |-> kind, doc |-> doc]

\* {"user": name}
UserData(name) == [tag |-> "dict", str |-> name, int |-> 0]

Item(kind, text, n) == [kind |-> kind, text |-> text, n |-> n]

\* the instant a timestamp string of the model denotes: [ok, secs]
IsoParse(text) ==
    IF text = "1970-01-01T00:00:02Z" THEN [ok |-> TRUE, secs |-> 2]
    ELSE [ok |-> FALSE, secs |-> 0]

\* the timestamp value of a parsed object, as _extract_timestamp reads it
DocTimestamp(doc) ==
    IF "timestamp" \in DOMAIN doc /\ doc["timestamp"].tag = "int"
    THEN NumTimestamp(<<doc["timestamp"].int>>)
    ELSE IF "timestamp" \in DOMAIN doc /\ doc["timestamp"].tag = "str"
    THEN IF IsoParse(doc["timestamp"].str).ok
         THEN StrTimestamp("iso_z", IsoParse(doc["timestamp"].str).secs)
         ELSE StrTimestamp("garbage", 0)
    ELSE NoTimestamp

\* the line as the loaders see it
AsJsonLine(line) ==
    JsonLine(line.kind, DocTimestamp(line.doc), FALSE, <<>>, DOMAIN line.doc = {})

\* one loop iteration of the loader called name
LoaderLine(name, st, data, n, now) ==
    IF name = "unified" THEN _load_file_line(st, data, n, now)
    ELSE IF name = "flat" THEN FlatParseLine(st, data, n)
    ELSE IF name = "archive" THEN ArchiveParseLine(st, data, n)
    ELSE ScriptParseLine(st, data, n)

\* the loop of a loader over the lines from line n on; st is [loaded, warnings, raised]
RECURSIVE LoaderLoop(_, _, _, _, _)
LoaderLoop(name, st, lines, n, now) ==
    IF n > Len(lines) \/ st.raised THEN st
    ELSE LoaderLoop(name, LoaderLine(name, st, AsJsonLine(lines[n]), n, now),
                    lines, n + 1, now)

\* the events a loader returns for a file: [raises, events]
ParseFile(name, lines, now) ==
    LET st == LoaderLoop(name, [loaded |-> <<>>, warnings |-> 0, raised |-> FALSE],
                         lines, 1, now)
        kept == IF name = "flat" THEN FlatParseReturn(st.loaded) ELSE st.loaded
    IN  [raises |-> st.raised,
         events |-> IF st.raised THEN <<>>
                    ELSE IF name = "unified" THEN kept
                    ELSE [k \in 1..Len(kept) |-> lines[kept[k].line_num].doc]]

\* list.sort(key=...) on the keys given elementwise: stable, ascending
StableSort(evs, keys) ==
    LET Rank(i) == Cardinality({ j \in 1..Len(evs) :
                                    \/ keys[j] < keys[i]
                                    \/ keys[j] = keys[i] /\ j < i }) + 1
    IN  [r \in 1..Len(evs) |-> evs[CHOOSE i \in 1..Len(evs) : Rank(i) = r]]

\* get_timestamp_for_sorting(event) of the flat analyzer
get_timestamp_for_sortingM(event) ==
    LET ts == Get(event, "timestamp", IntV(0))
    IN  IF ts.tag = "str"
        THEN IF dateutil /\ IsoParse(ts.str).ok THEN IsoParse(ts.str).secs ELSE 9
        ELSE IF ts.tag = "int" THEN ts.int
        ELSE 0
get_timestamp_for_sorting(event) ==
    LET ts == Get(event, "timestamp", IntV(0))
    IN  IF ts.tag = "str"
        THEN IF dateutil /\ IsoParse(ts.str).ok THEN IsoParse(ts.str).secs ELSE 0
        ELSE IF ts.tag = "int" THEN ts.int
        ELSE 0

\* analyze_events: events.sort(key=get_timestamp_for_sorting), in place
FlatSort(evs) ==
    StableSort(evs, [i \in 1..Len(evs) |-> get_timestamp_for_sorting(evs[i])])

\* event.get('event_name', 'unknown')
EventName(event) == Get(event, "event_name", StrV("unknown"))

\* generate_markdown_report of the flat analyzer: event['_type'] = event_type
TagType(event) == Put(event, "_type", EventName(event))

\* generate_markdown_report of the flat analyzer: the flow entry of one event
FlatFlowItem(event) ==
    IF EventName(event).str = "user_prompt" THEN <<Item("user_prompt", "", 0)>>
    ELSE IF EventName(event).str = "api_request" THEN <<Item("claude_response", "", 0)>>
    ELSE <<>>

RECURSIVE FlatFlow(_)
FlatFlow(evs) ==
    IF evs = <<>> THEN <<>> ELSE FlatFlowItem(Head(evs)) \o FlatFlow(Tail(evs))

\* generate_markdown_report(stats, event_types, output_file) of the flat analyzer
FlatReport(evs) ==
    FlatFlow(FlatSort([i \in 1..Len(evs) |-> TagType(evs[i])]))
    \o <<Item("total_events", "", Len(evs))>>

\* marker in str(data), over the data strings of the model
DataContains(text, marker) ==
    <<text, marker>> \in { <<"Processing query: hi", "Processing query:">>,
                           <<"Claude: hello", "Claude:">> }

\* str(data).replace(marker, '')
DataReplace(text, marker) ==
    IF text = "Processing query: hi" /\ marker = "Processing query: " THEN "hi"
    ELSE IF text = "Claude: hello" /\ marker = "Claude: " THEN "hello"
    ELSE text

\* TelemetryAnalyzer.format_event(event)
format_event(event) ==
    LET event_type == Get(event, "event", Get(event, "metric", StrV("unknown"))).str
        data == Get(event, "data", StrV("")).str
    IN  IF event_type = "ai_activity"
        THEN IF DataContains(data, "Processing query:")
             THEN Item("user_query", DataReplace(data, "Processing query: "), 0)
             ELSE IF DataContains(data, "Claude:")
             THEN Item("claude_response", DataReplace(data, "Claude: "), 0)
             ELSE Item("ai_activity", data, 0)
        ELSE IF event_type = "session_start"
        THEN Item("session_started", data, 0)
        ELSE Item("other", event_type, 0)

\* the sort key of analyze_conversations: x.get('timestamp', '')
ConversationKey(event) == Get(event, "timestamp", StrV(""))

\* the place of a key among the keys of its type: strings compare by code point
KeyRank(key) ==
    IF key.tag # "str" THEN key.int
    ELSE IF key.str = "" THEN 0
    ELSE IF key.str = "1970-01-01T00:00:02Z" THEN 1
    ELSE 2

\* analyze_conversations: the sort raises TypeError on keys of mixed types
ConversationSortRaises(evs) ==
    \E i, j \in 1..Len(evs) : ConversationKey(evs[i]).tag # ConversationKey(evs[j]).tag

\* analyze_conversations: the events of session 'unknown', sorted
analyze_conversations(evs) ==
    StableSort(evs, [i \in 1..Len(evs) |-> KeyRank(ConversationKey(evs[i]))])

\* the Conversation Flow lines of one session
FlowLines(evs) == [i \in 1..Len(evs) |-> format_event(evs[i])]

\* TelemetryAnalyzer.generate_markdown_report(): [raises, items]
generate_markdown_report(has_session, evs) ==
    IF ConversationSortRaises(evs)
    THEN [raises |-> TRUE, items |-> <<>>]
    ELSE [raises |-> FALSE,
          items |-> <<Item("total_sessions", "", IF has_session THEN 1 ELSE 0),
                      Item("total_events", "", Len(evs))>>
                    \o (IF has_session
                        THEN <<Item("session", "unknown", 0)>>
                             \o FlowLines(analyze_conversations(evs))
                        ELSE <<>>)
                    \o <<Item("raw_events", "", Len(evs))>>]

\* TelemetryAnalyzer.cleanup(): shutil.rmtree(self.temp_dir)
cleanupM(dirs, dir) == dirs
cleanup(dirs, dir) == IF dir # "none" THEN dirs \ {dir} ELSE dirs

(***************************************************************************)
(* One run of an entry point, one stage per step.                          *)
(***************************************************************************)
RunLineShapes ==
    { RunLine("garbage", EmptyDict),
      RunLine("object", ("event" :> StrV("session_start"))
                        @@ ("data" :> UserData("Alice"))),
      RunLine("object", ("event" :> StrV("ai_activity"))
                        @@ ("data" :> StrV("Processing query: hi"))),
      RunLine("object", ("event" :> StrV("ai_activity"))
                        @@ ("data" :> StrV("Claude: hello"))),
      RunLine("object", ("event" :> StrV("ai_activity")) @@ ("data" :> StrV("note"))
                        @@ ("timestamp" :> IntV(5))),
      RunLine("object", ("event_name" :> StrV("user_prompt"))
                        @@ ("timestamp" :> IntV(3))),
      RunLine("object", ("event_name" :> StrV("api_request"))
                        @@ ("timestamp" :> IntV(1))),
      RunLine("object", ("event_name" :> StrV("user_prompt"))
                        @@ ("timestamp" :> StrV("garbage"))),
      RunLine("object", ("event_name" :> StrV("api_request"))
                        @@ ("timestamp" :> StrV("1970-01-01T00:00:02Z"))) }

EntryPoints == {"unified", "flat", "archive", "script"}

NoArchive == [opens |-> FALSE, top_dir |-> FALSE, has_session |-> FALSE]

\* the archives: unreadable, without top-level directory, with a data directory
\* without and with sessions/unknown/session-info.json
ArchiveShapes ==
    { NoArchive,
      [opens |-> TRUE, top_dir |-> FALSE, has_session |-> FALSE],
      [opens |-> TRUE, top_dir |-> TRUE, has_session |-> FALSE],
      [opens |-> TRUE, top_dir |-> TRUE, has_session |-> TRUE] }

InitRun ==
    /\ pc = "main"
    /\ entry_point \in EntryPoints
    /\ input_exists \in BOOLEAN
    /\ dateutil \in BOOLEAN
    /\ (entry_point # "flat" \/ ~input_exists) => ~dateutil
    /\ archive \in ArchiveShapes
    /\ (entry_point \in {"unified", "flat"} \/ ~input_exists) => archive = NoArchive
    /\ run_lines \in SeqsUpTo(RunLineShapes, MaxRunLines)
    /\ (~input_exists \/ (entry_point \in {"archive", "script"} /\ ~archive.top_dir))
           => run_lines = <<>>
    /\ temp_dir = "none"
    /\ tmp_dirs = {}
    /\ run_events = <<>>
    /\ parsed_events = <<>>
    /\ report = <<>>
    /\ stages = {}
    /\ written = FALSE
    /\ exit_status = -1
    /\ raised = FALSE
    /\ IdleTurns
    /\ IdleGroup
    /\ IdleLoad
    /\ IdleRecord

\* main of the unified analyzer's CLI: load_telemetry_data(); a missing directory
\* matches no file
UnifiedLoad ==
    /\ pc = "main" /\ entry_point = "unified"
    /\ \E now \in NowValues :
           LET r == ParseFile("unified", IF input_exists THEN run_lines ELSE <<>>, now)
           IN  /\ run_events' = r.events
               /\ parsed_events' = r.events
    /\ stages' = stages \cup {"load"}
    /\ pc' = "analyze"
    /\ UNCHANGED <<entry_point, dateutil, input_exists, archive, run_lines, temp_dir, tmp_dirs,
                   report, written, exit_status, raised, turnVars, groupVars,
                   loadVars, recordVars>>

\* main of the unified analyzer's CLI: analyze_conversation_flow()
UnifiedAnalyze ==
    /\ pc = "analyze" /\ entry_point = "unified"
    /\ stages' = stages \cup {"analyze"}
    /\ pc' = "report"
    /\ UNCHANGED <<entry_point, dateutil, input_exists, archive, run_lines, temp_dir, tmp_dirs,
                   run_events, parsed_events, report, written, exit_status, raised,
                   turnVars, groupVars, loadVars, recordVars>>

\* main of the unified analyzer's CLI: generate_report(), then the report is saved
\* and main returns
UnifiedReport ==
    /\ pc = "report" /\ entry_point = "unified"
    /\ report' = <<Item("total_events", "", Len(run_events))>>
    /\ stages' = stages \cup {"report", "write"}
    /\ written' = TRUE
    /\ exit_status' = 0
    /\ pc' = "exit"
    /\ UNCHANGED <<entry_point, dateutil, input_exists, archive, run_lines, temp_dir, tmp_dirs,
                   run_events, parsed_events, raised, turnVars, groupVars, loadVars,
                   recordVars>>

\* process_telemetry: the input file does not exist
FlatMissing ==
    /\ pc = "main" /\ entry_point = "flat" /\ ~input_exists
    /\ exit_status' = 1
    /\ pc' = "exit"
    /\ UNCHANGED <<entry_point, dateutil, input_exists, archive, run_lines, temp_dir, tmp_dirs,
                   run_events, parsed_events, report, stages, written, raised,
                   turnVars, groupVars, loadVars, recordVars>>

\* process_telemetry: events = parse_jsonl(input_file); no event ends the run
FlatParse ==
    /\ pc = "main" /\ entry_point = "flat" /\ input_exists
    /\ LET r == ParseFile("flat", run_lines, 0)
       IN  /\ run_events' = r.events
           /\ parsed_events' = r.events
           /\ raised' = r.raises
           /\ exit_status' = IF r.raises \/ r.events = <<>> THEN 1 ELSE exit_status
           /\ pc' = IF r.raises \/ r.events = <<>> THEN "exit" ELSE "analyze"
    /\ stages' = stages \cup {"load"}
    /\ UNCHANGED <<entry_point, dateutil, input_exists, archive, run_lines, temp_dir, tmp_dirs,
                   report, written, turnVars, groupVars, loadVars, recordVars>>

\* process_telemetry: analyze_events(events)
FlatAnalyze ==
    /\ pc = "analyze" /\ entry_point = "flat"
    /\ run_events' = FlatSort(run_events)
    /\ stages' = stages \cup {"analyze"}
    /\ pc' = "report"
    /\ UNCHANGED <<entry_point, dateutil, input_exists, archive, run_lines, temp_dir, tmp_dirs,
                   parsed_events, report, written, exit_status, raised, turnVars,
                   groupVars, loadVars, recordVars>>

\* process_telemetry: generate_markdown_report(stats, event_types, output_file),
\* which writes the report
FlatGenerate ==
    /\ pc = "report" /\ entry_point = "flat"
    /\ run_events' = [i \in 1..Len(run_events) |-> TagType(run_events[i])]
    /\ report' = FlatReport(run_events)
    /\ stages' = stages \cup {"report", "write"}
    /\ written' = TRUE
    /\ exit_status' = 0
    /\ pc' = "exit"
    /\ UNCHANGED <<entry_point, dateutil, input_exists, archive, run_lines, temp_dir, tmp_dirs,
                   parsed_events, raised, turnVars, groupVars, loadVars, recordVars>>

\* main of the archive analyzers: the tar file does not exist
ArchiveMissing ==
    /\ pc = "main" /\ entry_point \in {"archive", "script"} /\ ~input_exists
    /\ exit_status' = 1
    /\ pc' = "exit"
    /\ UNCHANGED <<entry_point, dateutil, input_exists, archive, run_lines, temp_dir, tmp_dirs,
                   run_events, parsed_events, report, stages, written, raised,
                   turnVars, groupVars, loadVars, recordVars>>

\* analyze(): extract_tar()
ArchiveExtract ==
    /\ pc = "main" /\ entry_point \in {"archive", "script"} /\ input_exists
    /\ temp_dir' = "tmp1"
    /\ tmp_dirs' = tmp_dirs \cup {"tmp1"}
    /\ raised' = (~archive.opens \/ ~archive.top_dir)
    /\ stages' = stages \cup {"extract"}
    /\ pc' = IF archive.opens /\ archive.top_dir THEN "load" ELSE "cleanup"
    /\ UNCHANGED <<entry_point, dateutil, input_exists, archive, run_lines, run_events,
                   parsed_events, report, written, exit_status, turnVars, groupVars,
                   loadVars, recordVars>>

\* analyze(): load_data(base_dir)
ArchiveLoad ==
    /\ pc = "load" /\ entry_point \in {"archive", "script"}
    /\ LET r == ParseFile(entry_point, run_lines, 0)
       IN  /\ run_events' = r.events
           /\ parsed_events' = r.events
           /\ raised' = r.raises
           /\ pc' = IF r.raises THEN "cleanup" ELSE "report"
    /\ stages' = stages \cup {"load"}
    /\ UNCHANGED <<entry_point, dateutil, input_exists, archive, run_lines, temp_dir, tmp_dirs,
                   report, written, exit_status, turnVars, groupVars, loadVars,
                   recordVars>>

\* analyze(): generate_markdown_report()
ArchiveGenerate ==
    /\ pc = "report" /\ entry_point \in {"archive", "script"}
    /\ LET r == generate_markdown_report(archive.has_session, run_events)
       IN  /\ report' = r.items
           /\ raised' = r.raises
    /\ stages' = stages \cup {"report"}
    /\ pc' = "cleanup"
    /\ UNCHANGED <<entry_point, dateutil, input_exists, archive, run_lines, temp_dir, tmp_dirs,
                   run_events, parsed_events, written, exit_status, turnVars,
                   groupVars, loadVars, recordVars>>

\* analyze(): finally: self.cleanup(); an exception then reaches main, which
\* exits with status 1
ArchiveCleanup ==
    /\ pc = "cleanup" /\ entry_point \in {"archive", "script"}
    /\ tmp_dirs' = cleanup(tmp_dirs, temp_dir)
    /\ exit_status' = IF raised THEN 1 ELSE exit_status
    /\ pc' = IF raised THEN "exit" ELSE "write"
    /\ UNCHANGED <<entry_point, dateutil, input_exists, archive, run_lines, temp_dir,
                   run_events, parsed_events, report, stages, written, raised,
                   turnVars, groupVars, loadVars, recordVars>>

\* main of the archive analyzers: the report is written
ArchiveWrite ==
    /\ pc = "write" /\ entry_point \in {"archive", "script"}
    /\ written' = TRUE
    /\ stages' = stages \cup {"write"}
    /\ exit_status' = 0
    /\ pc' = "exit"
    /\ UNCHANGED <<entry_point, dateutil, input_exists, archive, run_lines, temp_dir, tmp_dirs,
                   run_events, parsed_events, report, raised, turnVars, groupVars,
                   loadVars, recordVars>>

NextRun ==
    \/ UnifiedLoad \/ UnifiedAnalyze \/ UnifiedReport
    \/ FlatMissing \/ FlatParse \/ FlatAnalyze \/ FlatGenerate
    \/ ArchiveMissing \/ ArchiveExtract \/ ArchiveLoad \/ ArchiveGenerate
    \/ ArchiveCleanup \/ ArchiveWrite

SpecRun == InitRun /\ [][NextRun]_vars

(***************************************************************************)
(* Properties of the runs.                                                 *)
(***************************************************************************)
\* C12: once analyze() of an archive analyzer has finished, by returning the
\* report or by an exception of the extraction, the load or the report
\* generation, the temporary extraction directory no longer exists.
C12_TempDirRemoved ==
    (entry_point \in {"archive", "script"} /\ pc \in {"write", "exit"}) =>
        /\ temp_dir \notin tmp_dirs
        /\ tmp_dirs = {}

\* the report generation raised after the archive was extracted and loaded, and
\* the extraction directory is gone
C12_Witness ==
    /\ entry_point = "archive"
    /\ pc = "exit"
    /\ raised
    /\ stages = {"extract", "load", "report"}
    /\ temp_dir = "tmp1"
    /\ tmp_dirs = {}
    /\ exit_status = 1

\* C13: in every entry point a missing input path is fatal: no loading, analysis
\* or report writing happens and the process exits with a non-zero status.
C13_MissingInputFatal ==
    ~input_exists =>
        /\ stages = {}
        /\ ~written
        /\ pc = "exit" => exit_status # 0

\* C14: the loaded event records are never changed after ingestion: the list the
\* run holds keeps the order, the keys and the values the loader returned.
C14_EventsNeverMutated ==
    "load" \in stages => run_events = parsed_events

\* a well-formed event line of claude-telemetry.jsonl
EventLine(line) ==
    /\ line.kind = "object"
    /\ "event" \in DOMAIN line.doc
    /\ "timestamp" \notin DOMAIN line.doc

IsAiActivity(line) == line.doc["event"] = StrV("ai_activity")

IsFlowLine(item) == item.kind \in {"user_query", "claude_response", "ai_activity"}

\* the Total Events figure of a report
TotalEvents(items) ==
    LET i == CHOOSE k \in 1..Len(items) : items[k].kind = "total_events"
    IN  items[i].n

\* C15: for an archive whose data directory holds only claude-telemetry.jsonl
\* with N well-formed event lines and no sessions/ directory, the report shows
\* Total Events N and its conversation flow lists every ai_activity event, in
\* input order, a 'Processing query: ...' event as User Query and a
\* 'Claude: ...' event as Claude Response.
C15_FlowListsAiActivity ==
    (/\ entry_point = "archive" /\ pc = "exit" /\ exit_status = 0
     /\ ~archive.has_session
     /\ \A i \in 1..Len(run_lines) : EventLine(run_lines[i]))
        => /\ TotalEvents(report) = Len(run_lines)
           /\ SelectSeq(report, IsFlowLine)
                  = LET shown == SelectSeq(run_lines, IsAiActivity)
                    IN  [i \in 1..Len(shown) |-> format_event(shown[i].doc)]
(***************************************************************************)
(* Properties of the sort of the flat analyzer.                            *)
(***************************************************************************)
\* the timestamp of the event is a string that does not parse
Unparseable(event) ==
    /\ Get(event, "timestamp", IntV(0)).tag = "str"
    /\ ~IsoParse(Get(event, "timestamp", IntV(0)).str).ok

\* the timestamp of the event resolves to a positive number
ResolvesPositive(event) ==
    LET ts == Get(event, "timestamp", IntV(0))
    IN  \/ ts.tag = "int" /\ ts.int > 0
        \/ ts.tag = "str" /\ dateutil /\ IsoParse(ts.str).ok /\ IsoParse(ts.str).secs > 0

\* C21: in the sort of analyze_events an event whose string timestamp cannot be
\* parsed has key 0, not the current time: in the sorted list every such event
\* precedes every event with a positive resolved timestamp, and sorting the
\* sorted list again gives the same order.
C21_UnparseableSortsFirst ==
    (entry_point = "flat" /\ pc = "report") =>
        /\ \A i, j \in 1..Len(run_events) :
               (Unparseable(run_events[i]) /\ ResolvesPositive(run_events[j])) => i < j
        /\ \A i \in 1..Len(run_events) :
               Unparseable(run_events[i]) => get_timestamp_for_sorting(run_events[i]) = 0
        /\ FlatSort(run_events) = run_events
        /\ FlatSort(parsed_events) = run_events

\* the loader returned an event with timestamp 3 before one with an unparseable
\* timestamp, and the sort has put the unparseable one first
C21_Witness ==
    /\ entry_point = "flat" /\ pc = "report"
    /\ Len(parsed_events) = 2
    /\ ResolvesPositive(parsed_events[1]) /\ Unparseable(parsed_events[2])
    /\ run_events = <<parsed_events[2], parsed_events[1]>>
(***************************************************************************)
(* Properties of the sort of a session.                                    *)
(***************************************************************************)
\* the events of evs with timestamp t, in the order of evs
TiedAt(evs, t) ==
    LET At(e) == e.timestamp.secs = t
    IN  SelectSeq(evs, At)

\* the loaded events of the n-th session, in input order
SessionInput(n) ==
    LET In(e) == /\ e.agent_type = SessionAt(n).agent_type
                 /\ SessionKey(e) = SessionAt(n).session_id
    IN  SelectSeq(events, In)

\* C22: the sort of a session is stable: the events of a session with the same
\* timestamp keep their input order, and the turns of the flow are those of the
\* events in that order.
C22_TiesKeepInputOrder ==
    Grouped =>
        \A n \in 1..Len(conversation_flows) :
            /\ \A e \in Range(events) :
                   TiedAt(SessionAt(n).session_events, e.timestamp.secs)
                       = TiedAt(SessionInput(n), e.timestamp.secs)
            /\ conversation_flows[n].turns
                   = _process_conversation_turns(SessionAt(n).agent_type,
                         SortByTimestamp(SessionInput(n)))

\* a prompt and a tool call with the same timestamp, loaded in this order after a
\* later event: the tool call belongs to the prompt's turn
C22_Witness ==
    /\ pc = "done"
    /\ ~raised
    /\ Len(events) = 3
    /\ Len(conversation_flows) = 1
    /\ events[1].timestamp.secs > events[2].timestamp.secs
    /\ events[2].timestamp = events[3].timestamp
    /\ _is_user_prompt(events[2])
    /\ _is_tool_call(events[3])
    /\ SessionAt(1).session_events = <<events[2], events[3], events[1]>>
    /\ Len(conversation_flows[1].turns[1].tool_calls) = 1
(***************************************************************************)
(* Properties of the flow statistics.                                      *)
(***************************************************************************)
\* the sum of token_usage[key] over the turns
RECURSIVE SumTokens(_, _)
SumTokens(turns, key) ==
    IF turns = <<>> THEN 0
    ELSE Get(Head(turns).token_usage, key, 0) + SumTokens(Tail(turns), key)

\* the tool calls of the turns, as (turn, position) pairs
ToolCallsOf(turns) ==
    { <<n, i>> : n \in 1..Len(turns), i \in 1..MaxEvents } \cap
    { c \in (1..Len(turns)) \X (1..MaxEvents) : c[2] <= Len(turns[c[1]].tool_calls) }

ToolNamesOf(turns) == { turns[c[1]].tool_calls[c[2]].name : c \in ToolCallsOf(turns) }

RECURSIVE SumErrors(_)
SumErrors(turns) ==
    IF turns = <<>> THEN 0 ELSE Len(Head(turns).errors) + SumErrors(Tail(turns))

RECURSIVE SumCounts(_, _)
SumCounts(used, names) ==
    IF names = {} THEN 0
    ELSE LET name == CHOOSE x \in names : TRUE
         IN  used[name] + SumCounts(used, names \ {name})

\* C23: after _calculate_flow_statistics, total_tokens[k] is the sum of the
\* turns' token_usage[k] for every key k of a turn, tools_used[name] is the
\* number of tool calls of the turns with that name, so the counts add up to the
\* number of tool calls, and error_count is the sum of the lengths of the turns'
\* errors lists.
C23_FlowStatisticsAreSums ==
    pc = "done" =>
        /\ DOMAIN flow.total_tokens
               = UNION { DOMAIN flow.turns[n].token_usage : n \in 1..Len(flow.turns) }
        /\ \A k \in DOMAIN flow.total_tokens :
               flow.total_tokens[k] = SumTokens(flow.turns, k)
        /\ DOMAIN flow.tools_used = ToolNamesOf(flow.turns)
        /\ \A name \in DOMAIN flow.tools_used :
               flow.tools_used[name]
                   = Cardinality({ c \in ToolCallsOf(flow.turns) :
                                      flow.turns[c[1]].tool_calls[c[2]].name = name })
        /\ SumCounts(flow.tools_used, DOMAIN flow.tools_used)
               = Cardinality(ToolCallsOf(flow.turns))
        /\ flow.error_count = SumErrors(flow.turns)

\* two turns with token counts, the tool Read called in both of them
C23_Witness ==
    /\ pc = "done"
    /\ Len(flow.turns) = 2
    /\ flow.turns[1].token_usage # EmptyDict
    /\ flow.turns[2].token_usage # EmptyDict
    /\ Len(flow.turns[1].tool_calls) = 1
    /\ Len(flow.turns[2].tool_calls) = 1
    /\ flow.tools_used = (StrV("Read") :> 2)
    /\ flow.total_tokens = ("input" :> 2)
(***************************************************************************)
(* Properties of the assistant response of a turn.                         *)
(***************************************************************************)
\* the events the chain classifies as assistant response
ClassifiedResponse(event) == ~_is_user_prompt(event) /\ _is_assistant_response(event)

\* C24: the assistant_response of a turn is what the last assistant-response
\* event of the turn's segment carries, whatever earlier ones carried, and None
\* if the segment has none; a response event neither opens nor closes a turn:
\* the turns opened so far are as many as the prompts, each at its prompt.
C24_LastResponseWins ==
    /\ turn_counter = Cardinality(PromptPositions(session_events))
    /\ pc = "turns" =>
           Len(flow.turns) + (IF current_turn # <<>> THEN 1 ELSE 0) = turn_counter
    /\ TurnsReturned =>
           /\ Len(flow.turns) = turn_counter
           /\ \A k \in 1..Len(flow.turns) :
                  LET p == KthPrompt(session_events, k)
                      seg == SubSeq(session_events, p + 1, SegmentEnd(session_events, p))
                      responses == SelectSeq(seg, ClassifiedResponse)
                  IN  /\ flow.turns[k].timestamp = session_events[p].timestamp
                      /\ flow.turns[k].assistant_response
                             = IF responses = <<>> THEN NoneV
                               ELSE _extract_assistant_response(
                                        responses[Len(responses)])

\* one turn with the responses R1 and then R2: the turn holds R2
C24_Witness ==
    /\ pc = "done"
    /\ Len(flow.turns) = 1
    /\ Len(session_events) = 3
    /\ _is_user_prompt(session_events[1])
    /\ _extract_assistant_response(session_events[2]) = StrV("R1")
    /\ _extract_assistant_response(session_events[3]) = StrV("R2")
    /\ ClassifiedResponse(session_events[2])
    /\ ClassifiedResponse(session_events[3])
    /\ flow.turns[1].assistant_response = StrV("R2")
(***************************************************************************)
(* Properties of the fields of a turn that nothing writes.                 *)
(***************************************************************************)
\* errors, duration_ms and cost_estimate of the turn are as constructed
Untouched(turn) ==
    /\ turn.errors = <<>>
    /\ turn.duration_ms = NoneV
    /\ turn.cost_estimate = NoneV

\* the event carries an error, a duration and a cost
ErrorEvent(event) ==
    /\ event.operation_name = StrV("error")
    /\ {"error", "duration_ms", "cost_usd"} \subseteq DOMAIN event.attributes

\* C30: whatever the events of a session carry, every turn, finished or open,
\* has an empty errors list and no duration_ms and no cost_estimate, and the
\* flow's error_count is 0.
C30_NoErrorEverRecorded ==
    /\ \A k \in 1..Len(flow.turns) : Untouched(flow.turns[k])
    /\ current_turn # <<>> => Untouched(current_turn[1])
    /\ flow.error_count = 0

\* a flow whose only turn saw two events that carry an error
C30_Witness ==
    /\ pc = "done"
    /\ Len(session_events) = 3
    /\ Len(flow.turns) = 1
    /\ ErrorEvent(session_events[2])
    /\ ErrorEvent(session_events[3])
    /\ flow.error_count = 0
(***************************************************************************)
(* Properties of the user of a flow.                                       *)
(***************************************************************************)
\* the positions of the events of evs with one of the attributes keys
Exposing(evs, keys) == { i \in 1..Len(evs) : keys \cap DOMAIN evs[i].attributes # {} }

\* the value of the first event of evs that has one of the two attributes, the
\* dotted one first, and default when no event has one
FirstExposed(evs, dotted, plain, default) ==
    LET exposing == Exposing(evs, {dotted, plain})
        first == CHOOSE i \in exposing : \A j \in exposing : i <= j
    IN  IF exposing = {} THEN StrV(default)
        ELSE IF dotted \in DOMAIN evs[first].attributes
        THEN evs[first].attributes[dotted]
        ELSE evs[first].attributes[plain]

\* C25: the user_name and the user_email of a flow are those of the first event
\* of the session, in the order of the sort by timestamp, that has a user name /
\* user email attribute, whatever later events have, and 'Unknown User' /
\* 'unknown@example.com' when no event has one.
C25_FirstExposedUserWins ==
    Grouped =>
        \A n \in 1..Len(conversation_flows) :
            /\ conversation_flows[n].user_name
                   = FirstExposed(SortByTimestamp(SessionInput(n)),
                                  "user.name", "user_name", "Unknown User")
            /\ conversation_flows[n].user_email
                   = FirstExposed(SortByTimestamp(SessionInput(n)),
                                  "user.email", "user_email", "unknown@example.com")

\* alice was loaded before bob, whose event is the earlier one: the flow's user
\* is bob, and no event of the session has an email
C25_Witness ==
    /\ pc = "done"
    /\ ~raised
    /\ Len(events) = 2
    /\ Len(conversation_flows) = 1
    /\ Get(events[1].attributes, "user.name", NoneV) = StrV("alice")
    /\ Get(events[2].attributes, "user.name", NoneV) = StrV("bob")
    /\ events[2].timestamp.secs < events[1].timestamp.secs
    /\ conversation_flows[1].user_name = StrV("bob")
    /\ conversation_flows[1].user_email = StrV("unknown@example.com")
(***************************************************************************)
(* The analyzer object over its life: events are loaded, then               *)
(* analyze_conversation_flow() and generate_report() are called.           *)
(***************************************************************************)
MaxLoaded == 4          \* events the analyzer has loaded
MaxRuns == 2            \* calls of analyze_conversation_flow

\* the second loop of analyze_conversation_flow from the n-th session on:
\* [flows, raised]
RECURSIVE AnalyzeLoop(_, _, _)
AnalyzeLoop(flows, groups, n) ==
    IF n > Len(SessionOrder(groups)) THEN [flows |-> flows, raised |-> FALSE]
    ELSE LET a == SessionOrder(groups)[n][1]
             k == SessionOrder(groups)[n][2]
             evs == groups[a].sessions[k].session_events
         IN  IF SortRaises(evs) THEN [flows |-> flows, raised |-> TRUE]
             ELSE AnalyzeLoop(Append(flows,
                                     BuildFlow(groups[a].agent_type,
                                               groups[a].sessions[k].session_id,
                                               SortByTimestamp(evs))),
                              groups, n + 1)

\* self.conversation_flows after analyze_conversation_flow(): [flows, raised]
analyze_conversation_flow(flows, evs) == AnalyzeLoop(flows, GroupEvents(<<>>, evs), 1)

\* the keys of a dict filled by d[key] += ..., in insertion order
RECURSIVE Dedup(_)
Dedup(keys) ==
    IF keys = <<>> THEN <<>>
    ELSE LET before == Dedup(SubSeq(keys, 1, Len(keys) - 1))
         IN  IF \E i \in 1..Len(before) : before[i] = keys[Len(keys)]
             THEN before
             ELSE Append(before, keys[Len(keys)])

RECURSIVE Flatten(_)
Flatten(seqs) == IF seqs = <<>> THEN <<>> ELSE Head(seqs) \o Flatten(Tail(seqs))

\* flow.tools_used.items(): the tools in the order of their first call
FlowTools(f) ==
    LET names == Dedup(Flatten([n \in 1..Len(f.turns) |->
                                   [i \in 1..Len(f.turns[n].tool_calls) |->
                                       f.turns[n].tool_calls[i].name]]))
    IN  [i \in 1..Len(names) |-> [name |-> names[i], count |-> f.tools_used[names[i]]]]

\* tools[tool] += count on a defaultdict(int) kept as [name, count] in
\* insertion order
AddCountM(tools, tool, count) ==
    IF \E i \in 1..Len(tools) : tools[i].name = tool
    THEN LET i == CHOOSE j \in 1..Len(tools) : tools[j].name = tool
         IN  [tools EXCEPT ![i].count = count]
    ELSE Append(tools, [name |-> tool, count |-> count])
AddCount(tools, tool, count) ==
    IF \E i \in 1..Len(tools) : tools[i].name = tool
    THEN LET i == CHOOSE j \in 1..Len(tools) : tools[j].name = tool
         IN  [tools EXCEPT ![i].count = @ + count]
    ELSE Append(tools, [name |-> tool, count |-> count])

RECURSIVE AddCounts(_, _)
AddCounts(tools, items) ==
    IF items = <<>> THEN tools
    ELSE AddCounts(AddCount(tools, Head(items).name, Head(items).count), Tail(items))

\* generate_report: the body of the loop that fills agent_stats
AddFlowStats(agent_stats, f) ==
    LET known == \E i \in 1..Len(agent_stats) : agent_stats[i].agent_type = f.agent_type
        stats == IF known THEN agent_stats
                 ELSE Append(agent_stats,
                             [agent_type |-> f.agent_type, sessions |-> 0, turns |-> 0,
                              tokens |-> 0, cost |-> 0, tools |-> <<>>])
        i == CHOOSE j \in 1..Len(stats) : stats[j].agent_type = f.agent_type
    IN  [stats EXCEPT ![i].sessions = @ + 1,
                      ![i].turns = @ + Len(f.turns),
                      ![i].tokens = @ + Get(f.total_tokens, "total", 0),
                      ![i].cost = @ + f.total_cost,
                      ![i].tools = AddCounts(@, FlowTools(f))]

RECURSIVE AgentStats(_, _)
AgentStats(agent_stats, flows) ==
    IF flows = <<>> THEN agent_stats
    ELSE AgentStats(AddFlowStats(agent_stats, Head(flows)), Tail(flows))

\* generate_report: all_tools, filled from the agents' tools
RECURSIVE AllTools(_, _)
AllTools(tools, agent_stats) ==
    IF agent_stats = <<>> THEN tools
    ELSE AllTools(AddCounts(tools, Head(agent_stats).tools), Tail(agent_stats))

\* sorted(all_tools.items(), key=lambda x: x[1], reverse=True)[:10]
TopToolsM(tools) ==
    SubSeq(StableSort(tools, [i \in 1..Len(tools) |-> tools[i].count]),
           1, IF Len(tools) < 10 THEN Len(tools) ELSE 10)
TopTools(tools) ==
    SubSeq(StableSort(tools, [i \in 1..Len(tools) |-> 0 - tools[i].count]),
           1, IF Len(tools) < 10 THEN Len(tools) ELSE 10)

\* generate_report: the Session Details of the flows, agent by agent
SessionDetails(flows) ==
    LET agents == Dedup([n \in 1..Len(flows) |-> flows[n].agent_type])
        Of(a) == LET Is(f) == f.agent_type = a IN SelectSeq(flows, Is)
    IN  Flatten([a \in 1..Len(agents) |->
                    [i \in 1..Len(Of(agents[a])) |->
                        Item("session", agents[a], Len(Of(agents[a])[i].turns))]])

\* UnifiedTelemetryAnalyzer.generate_report()
generate_report(flows) ==
    IF flows = <<>> THEN <<Item("no_flows", "", 0)>>
    ELSE LET agent_stats == AgentStats(<<>>, flows)
             top == TopTools(AllTools(<<>>, agent_stats))
         IN  Flatten([a \in 1..Len(agent_stats) |->
                         <<Item("sessions", agent_stats[a].agent_type,
                                agent_stats[a].sessions),
                           Item("turns", agent_stats[a].agent_type,
                                agent_stats[a].turns),
                           Item("tokens", agent_stats[a].agent_type,
                                agent_stats[a].tokens),
                           Item("cost", agent_stats[a].agent_type,
                                agent_stats[a].cost)>>])
             \o [i \in 1..Len(top) |-> Item("top_tool", top[i].name.str, top[i].count)]
             \o SessionDetails(flows)

\* The events the analyzer may have loaded.
AnalyzerShapes ==
    { TelemetryEvent(DateTime(1, TRUE), "claude-code", StrV("t1"), StrV("claude-code"),
                     NoneV, ("prompt" :> StrV("B")) @@ ("tokens.total" :> IntV(2)),
                     <<>>),
      TelemetryEvent(DateTime(2, TRUE), "claude-code", StrV("t1"), StrV("claude-code"),
                     NoneV, ("tool.name" :> StrV("Read")), <<>>),
      TelemetryEvent(DateTime(1, TRUE), "claude-code", StrV("t1"), StrV("claude-code"),
                     NoneV, ("tool.name" :> StrV("Bash")), <<>>),
      TelemetryEvent(DateTime(3, TRUE), "claude-code", StrV("t2"), StrV("claude-code"),
                     NoneV, ("user.prompt" :> StrV("A")), <<>>),
      TelemetryEvent(DateTime(2, TRUE), "gemini-cli", StrV("t1"), StrV("gemini-cli"),
                     NoneV, ("prompt" :> StrV("B")), <<>>),
      TelemetryEvent(DateTime(3, TRUE), "gemini-cli", StrV("t1"), StrV("gemini-cli"),
                     NoneV, ("tool.name" :> StrV("Read")), <<>>),
      TelemetryEvent(DateTime(2, FALSE), "claude-code", StrV("t2"), StrV("claude-code"),
                     NoneV, ("prompt" :> StrV("C")), <<>>) }

InitAnalyzer ==
    /\ pc = "ready"
    /\ events \in SeqsUpTo(AnalyzerShapes, MaxLoaded)
    /\ agent_sessions = <<>>
    /\ conversation_flows = <<>>
    /\ next_session = 0
    /\ analyses = 0
    /\ raised = FALSE
    /\ IdleTurns
    /\ IdleLoad
    /\ IdleAux

\* analyzer.analyze_conversation_flow()
AnalyzerAnalyze ==
    /\ pc = "ready"
    /\ analyses < MaxRuns
    /\ LET r == analyze_conversation_flow(conversation_flows, events)
       IN  /\ conversation_flows' = r.flows
           /\ raised' = r.raised
    /\ analyses' = analyses + 1
    /\ UNCHANGED <<pc, events, agent_sessions, next_session, turnVars, loadVars,
                   auxVars>>

\* analyzer.generate_report()
AnalyzerReport ==
    /\ pc = "ready"
    /\ report' = generate_report(conversation_flows)
    /\ pc' = "reported"
    /\ UNCHANGED <<raised, groupVars, turnVars, loadVars, recordVars, entry_point,
                   dateutil, input_exists, archive, run_lines, temp_dir, tmp_dirs,
                   run_events, parsed_events, stages, written, exit_status>>

NextAnalyzer == AnalyzerAnalyze \/ AnalyzerReport

SpecAnalyzer == InitAnalyzer /\ [][NextAnalyzer]_vars

(***************************************************************************)
(* Properties of the analyzer object.                                      *)
(***************************************************************************)
\* the (agent_type, session key) pairs of the loaded events
SessionPairs == { <<events[i].agent_type, SessionKey(events[i])>> : i \in 1..Len(events) }

\* C28: after any number of completed calls of analyze_conversation_flow on the
\* same events, conversation_flows holds one flow per (agent_type, session key)
\* pair, the flow a single call builds.
C28_AnalysisIdempotent ==
    (analyses >= 1 /\ ~raised) =>
        /\ Len(conversation_flows) = Cardinality(SessionPairs)
        /\ conversation_flows = analyze_conversation_flow(<<>>, events).flows
\* the items of the report of one kind
ItemsOf(kind) ==
    LET Is(item) == item.kind = kind
    IN  SelectSeq(report, Is)

RECURSIVE SumN(_)
SumN(items) == IF items = <<>> THEN 0 ELSE Head(items).n + SumN(Tail(items))

\* the flows of the agent
FlowsOf(agent_type) ==
    LET Is(f) == f.agent_type = agent_type
    IN  SelectSeq(conversation_flows, Is)

RECURSIVE SumTurns(_)
SumTurns(flows) == IF flows = <<>> THEN 0 ELSE Len(Head(flows).turns) + SumTurns(Tail(flows))

RECURSIVE SumUsed(_, _)
SumUsed(flows, name) ==
    IF flows = <<>> THEN 0
    ELSE Get(Head(flows).tools_used, name, 0) + SumUsed(Tail(flows), name)

\* the calls of the tool, as (flow, turn, position) triples
CallsOf(name) ==
    { c \in (1..Len(conversation_flows)) \X (1..MaxLoaded) \X (1..MaxLoaded) :
          /\ c[2] <= Len(conversation_flows[c[1]].turns)
          /\ c[3] <= Len(conversation_flows[c[1]].turns[c[2]].tool_calls)
          /\ conversation_flows[c[1]].turns[c[2]].tool_calls[c[3]].name = name }

Earlier(c, d) ==
    \/ c[1] < d[1]
    \/ c[1] = d[1] /\ c[2] < d[2]
    \/ c[1] = d[1] /\ c[2] = d[2] /\ c[3] < d[3]

\* the tool a was called, in the order of the flows, before the tool b was
FirstSeenBefore(a, b) == \E c \in CallsOf(a) : \A d \in CallsOf(b) : Earlier(c, d)

\* C26: in the report of a non-empty list of flows every agent_type of a flow has
\* one Sessions and one Conversation Turns figure, the number of its flows and
\* the sum of their turns, so the figures add up to the number of flows and of
\* turns; the tools listed are those of the flows, each with the sum of its
\* counts in the flows' tools_used, by descending count, tools with the same
\* count in the order in which they were first met.
C26_ReportAggregatesFlows ==
    (pc = "reported" /\ conversation_flows # <<>>) =>
        LET sessions == ItemsOf("sessions")
            turns == ItemsOf("turns")
            top == ItemsOf("top_tool")
            agents == { conversation_flows[n].agent_type : n \in 1..Len(conversation_flows) }
            names == UNION { DOMAIN conversation_flows[n].tools_used :
                                 n \in 1..Len(conversation_flows) }
        IN  /\ Len(sessions) = Cardinality(agents)
            /\ Len(turns) = Cardinality(agents)
            /\ \A i \in 1..Len(sessions) :
                   /\ sessions[i].text \in agents
                   /\ sessions[i].n = Len(FlowsOf(sessions[i].text))
                   /\ turns[i].text = sessions[i].text
                   /\ turns[i].n = SumTurns(FlowsOf(turns[i].text))
            /\ \A i, j \in 1..Len(sessions) : sessions[i].text = sessions[j].text => i = j
            /\ SumN(sessions) = Len(conversation_flows)
            /\ SumN(turns) = SumTurns(conversation_flows)
            /\ { StrV(top[i].text) : i \in 1..Len(top) } = names
            /\ Len(top) = Cardinality(names)
            /\ \A i \in 1..Len(top) :
                   top[i].n = SumUsed(conversation_flows, StrV(top[i].text))
            /\ \A i, j \in 1..Len(top) :
                   i < j => \/ top[i].n > top[j].n
                            \/ /\ top[i].n = top[j].n
                               /\ FirstSeenBefore(StrV(top[i].text), StrV(top[j].text))

\* a flow was reported in which Bash was called first and once, Read after it
\* and twice: the report lists Read before Bash
C26_Witness ==
    /\ pc = "reported"
    /\ analyses = 1
    /\ ItemsOf("sessions") = <<Item("sessions", "claude-code", 1)>>
    /\ Len(ItemsOf("top_tool")) = 2
    /\ ItemsOf("top_tool")[1].text = "Read"
    /\ ItemsOf("top_tool")[2].text = "Bash"
    /\ ItemsOf("top_tool")[1].n > ItemsOf("top_tool")[2].n
    /\ FirstSeenBefore(StrV("Bash"), StrV("Read"))
(***************************************************************************)
(* Properties of the conversations of the archive analyzers.               *)
(***************************************************************************)
\* C29: analyze_conversations of the archive analyzers never raises, whatever
\* timestamps the loaded events have or lack, and the list of session 'unknown'
\* holds every loaded event once.
C29_ConversationsNeverRaise ==
    (entry_point \in {"archive", "script"} /\ "report" \in stages) =>
        /\ ~raised
        /\ ~ConversationSortRaises(run_events)
        /\ \A e \in Range(run_events) :
               CountIn(analyze_conversations(run_events), e) = CountIn(run_events, e)
(***************************************************************************)
(* load_telemetry_data over a data directory.  An entry of the directory   *)
(* is [name, is_file, lines]; the directory itself has the default name    *)
(* telemetry-data.                                                         *)
(***************************************************************************)
MaxFiles == 2           \* entries of the data directory

DirEntry(name, is_file, lines) == [name |-> name, is_file |-> is_file, lines |-> lines]

\* patterns of load_telemetry_data
Patterns == <<"*.jsonl", "claude-telemetry.jsonl", "traces.jsonl", "logs.jsonl",
              "metrics.jsonl">>

DirNames == {"claude-telemetry.jsonl", "traces.jsonl", "session.jsonl", "notes.txt"}

\* the names Path.glob(pattern) matches
GlobMatches(pattern, name) ==
    IF pattern = "*.jsonl"
    THEN name \in {"claude-telemetry.jsonl", "traces.jsonl", "session.jsonl"}
    ELSE name = pattern

\* "claude" in str(line).lower(), over the lines of the model
MentionsClaude(line) ==
    line.kind = "object" /\ Get(line.doc, "data", StrV("")) = StrV("Claude: hello")

\* detect_agent_type(file_path)
detect_agent_type(file) ==
    IF file.name = "claude-telemetry.jsonl" THEN "claude-code"
    ELSE IF file.lines # <<>> /\ MentionsClaude(file.lines[1]) THEN "claude-code"
    ELSE "unknown"

\* _load_file(file_path, agent_type): the events appended to self.events
LoadedFrom(file, now) ==
    LET st == LoaderLoop("unified", [loaded |-> <<>>, warnings |-> 0, raised |-> FALSE],
                         file.lines, 1, now)
    IN  [loaded |-> [k \in 1..Len(st.loaded) |->
                        [file |-> file.name, agent_type |-> detect_agent_type(file),
                         line_num |-> st.loaded[k].line_num,
                         timestamp |-> st.loaded[k].timestamp]],
         warnings |-> st.warnings]

\* the inner loop of load_telemetry_data over the matches of one pattern
RECURSIVE LoadMatches(_, _, _, _)
LoadMatches(st, pattern, dir, now) ==
    IF dir = <<>> THEN st
    ELSE LoadMatches(IF GlobMatches(pattern, Head(dir).name) /\ Head(dir).is_file
                     THEN [loaded |-> st.loaded \o LoadedFrom(Head(dir), now).loaded,
                           warnings |-> st.warnings + LoadedFrom(Head(dir), now).warnings]
                     ELSE st,
                     pattern, Tail(dir), now)

\* the outer loop of load_telemetry_data over the patterns from the n-th on
RECURSIVE load_telemetry_data(_, _, _, _)
load_telemetry_data(st, n, dir, now) ==
    IF n > Len(Patterns) THEN st
    ELSE load_telemetry_data(LoadMatches(st, Patterns[n], dir, now), n + 1, dir, now)

\* the contents of a file
FileContents ==
    { <<>>,
      <<RunLine("object", ("event" :> StrV("session_start"))
                          @@ ("data" :> UserData("Alice")))>>,
      <<RunLine("object", ("event" :> StrV("ai_activity"))
                          @@ ("data" :> StrV("Claude: hello"))),
        RunLine("garbage", EmptyDict)>> }

DirEntries ==
    { DirEntry(name, TRUE, lines) : name \in DirNames, lines \in FileContents }
    \cup { DirEntry(name, FALSE, <<>>) : name \in DirNames }

InitDir ==
    /\ pc = "start"
    /\ data_dir \in { d \in SeqsUpTo(DirEntries, MaxFiles) :
                          \A i, j \in 1..Len(d) : d[i].name = d[j].name => i = j }
    /\ loader = "unified"
    /\ file_lines = <<>>
    /\ line_num = 0
    /\ loaded = <<>>
    /\ warnings = 0
    /\ raised = FALSE
    /\ IdleTurns
    /\ IdleGroup
    /\ IdleAux

\* analyzer.load_telemetry_data()
DirLoad ==
    /\ pc = "start"
    /\ \E now \in NowValues :
           LET st == load_telemetry_data([loaded |-> loaded, warnings |-> warnings],
                                         1, data_dir, now)
           IN  /\ loaded' = st.loaded
               /\ warnings' = st.warnings
    /\ pc' = "loaded"
    /\ UNCHANGED <<data_dir, loader, file_lines, line_num, raised, turnVars,
                   groupVars, auxVars>>

NextDir == DirLoad

SpecDir == InitDir /\ [][NextDir]_vars

(***************************************************************************)
(* Properties of load_telemetry_data.                                      *)
(***************************************************************************)
\* the files of the directory that a pattern matches
MatchingFiles ==
    { i \in 1..Len(data_dir) :
         /\ data_dir[i].is_file
         /\ \E n \in 1..Len(Patterns) : GlobMatches(Patterns[n], data_dir[i].name) }

RECURSIVE SumRecords(_)
SumRecords(files) ==
    IF files = {} THEN 0
    ELSE LET i == CHOOSE x \in files : TRUE
         IN  Len(LoadedFrom(data_dir[i], CHOOSE now \in NowValues : TRUE).loaded) + SumRecords(files \ {i})

\* C27: one call of load_telemetry_data loads every matching file of the
\* directory once: the events appended are as many as one load of each file
\* gives, and no line of a file gave two events.
C27_EachFileLoadedOnce ==
    pc = "loaded" =>
        /\ Len(loaded) = SumRecords(MatchingFiles)
        /\ \A i, j \in 1..Len(loaded) :
               (loaded[i].file = loaded[j].file /\ loaded[i].line_num = loaded[j].line_num)
                   => i = j
====
